---------------------------- MODULE Spec2Model ----------------------------
(***************************************************************************)
(* State-machine model of the stock-data fetch engine                      *)
(* (src/stock_analysis/data_fetcher.py): code normalisation, the baostock  *)
(* session flag, the category fetchers, the retry helper and the           *)
(* fetch_all_data orchestrator.                                            *)
(*                                                                         *)
(* Python strings are sequences of one-character strings.  Upstream        *)
(* provider calls are inputs: each call's outcome is drawn from a small    *)
(* set when the call is made.  A function that can raise returns a record  *)
(* [exc |-> BOOLEAN, val |-> ...], so that an escaping exception is        *)
(* something the model checker can see.                                    *)
(***************************************************************************)
EXTENDS Integers, Sequences, FiniteSets, TLC

\* ------------------------------------------------------------------ bounds
\* longest free-form identifier (any characters) given to _normalize_code
MaxCodeLen == 3
\* longest digit string (optionally venue-prefixed) given to _normalize_code
MaxDigits == 7

\* Python's None, where the other values are tables, rows, dicts or strings
\* of characters
None == [none |-> TRUE]
\* Python's None, where the other values are names (a source tag, an
\* exception type, the provider a number comes from)
NoTag == "None"

\* ------------------------------------------------------- string helpers
Digits == {"0", "1", "2", "3", "4", "5", "6", "7", "8", "9"}
\* characters free-form identifiers are built from
Alphabet == {"s", "h", "z", "S", "H", "Z", "1", "6", " ", "-"}
\* digits the digit-string identifiers are built from
SomeDigits == {"0", "6"}

SeqsUpTo(S, n) == UNION {[1..k -> S] : k \in 0..n}

IsDigits(s) == \A i \in 1..Len(s) : s[i] \in Digits

\* s[k:] of Python (k >= 0)
DropFirst(s, k) == IF k >= Len(s) THEN <<>> ELSE SubSeq(s, k + 1, Len(s))

\* s.startswith(p)
StartsWith(s, p) == Len(s) >= Len(p) /\ SubSeq(s, 1, Len(p)) = p

RECURSIVE LStrip(_)
LStrip(s) == IF s # <<>> /\ Head(s) = " " THEN LStrip(Tail(s)) ELSE s

RECURSIVE RStrip(_)
RStrip(s) ==
    IF s # <<>> /\ s[Len(s)] = " " THEN RStrip(SubSeq(s, 1, Len(s) - 1)) ELSE s

\* str.strip(): leading and trailing whitespace removed
Strip(s) == RStrip(LStrip(s))

Zeros(n) == [i \in 1..n |-> "0"]

\* str.zfill(width): zeros on the left, after a leading sign if there is one;
\* a string already that long is returned unchanged
ZFill(s, width) ==
    IF Len(s) >= width THEN s
    ELSE IF s # <<>> /\ Head(s) \in {"+", "-"}
         THEN <<Head(s)>> \o Zeros(width - Len(s)) \o Tail(s)
         ELSE Zeros(width - Len(s)) \o s

\* the width _normalize_code pads to
CodeWidth == 6

\* the venue prefixes, in the order the loop tries them
VenuePrefixes == << <<"s", "h">>, <<"s", "z">>, <<"S", "H">>, <<"S", "Z">> >>

RECURSIVE StripPrefixes(_, _)
StripPrefixes(code, i) ==
    IF i > Len(VenuePrefixes) THEN code
    ELSE StripPrefixes(IF StartsWith(code, VenuePrefixes[i])
                       THEN DropFirst(code, 2) ELSE code, i + 1)

_normalize_code(code) == ZFill(StripPrefixes(Strip(code), 1), CodeWidth)

_to_bs_code(code) ==
    LET c == _normalize_code(code)
    IN  IF StartsWith(c, <<"6">>) THEN <<"s", "h", ".">> \o c
        ELSE <<"s", "z", ".">> \o c

\* ------------------------------------------------------------ the inputs
Code_sh600519 == <<"s", "h", "6", "0", "0", "5", "1", "9">>
Code_600519 == <<"6", "0", "0", "5", "1", "9">>
Code_1 == <<"1">>
Code_000001 == <<"0", "0", "0", "0", "0", "1">>

\* digit strings, bare or behind one venue prefix
DigitCodes ==
    {p \o d : p \in {<<>>} \cup {VenuePrefixes[i] : i \in 1..Len(VenuePrefixes)},
              d \in SeqsUpTo(SomeDigits, MaxDigits) \ {<<>>}}

CodeInputs == SeqsUpTo(Alphabet, MaxCodeLen) \cup DigitCodes \cup {Code_sh600519, Code_1}

\* an identifier of the shape the docstring has in mind: digits, optionally
\* behind one venue prefix and surrounded by whitespace
IsSecurityId(s) ==
    LET t == Strip(s)
        d == IF \E i \in 1..Len(VenuePrefixes) : StartsWith(t, VenuePrefixes[i])
             THEN DropFirst(t, 2) ELSE t
    IN  d # <<>> /\ IsDigits(d)

\* ------------------------------------------------- the baostock session
\* outcomes of bs.login(): error_code '0', another error_code, an exception
LoginOutcomes == {"ok", "err", "raise"}
\* outcomes of bs.logout()
LogoutOutcomes == {"ok", "raise"}

\* mutant: the flag is not consulted, login is issued on every call
BsLoginNoFlagCheck(has, flag, out) ==
    IF ~has THEN [flag |-> flag, ret |-> flag, called |-> FALSE]
    ELSE [flag |-> (out = "ok"), ret |-> (out = "ok"), called |-> TRUE]

\* mutant: the caller is told the session is up whatever bs.login() did
BsLoginAssumeOk(has, flag, out) ==
    IF ~has \/ flag THEN [flag |-> flag, ret |-> flag, called |-> FALSE]
    ELSE [flag |-> (out = "ok"), ret |-> TRUE, called |-> TRUE]

\* _bs_login(): the new flag, the value returned, whether bs.login() was called
_bs_login(has, flag, out) ==
    IF ~has \/ flag THEN [flag |-> flag, ret |-> flag, called |-> FALSE]
    ELSE [flag |-> (out = "ok"), ret |-> (out = "ok"), called |-> TRUE]
\* mutant: the flag is cleared only when bs.logout() returned
BsLogoutKeepOnRaise(has, flag, out) ==
    IF ~has \/ ~flag THEN [flag |-> flag, called |-> FALSE]
    ELSE [flag |-> (out = "raise"), called |-> TRUE]

\* _bs_logout(): the new flag, whether bs.logout() was called
_bs_logout(has, flag, out) ==
    IF ~has \/ ~flag THEN [flag |-> flag, called |-> FALSE]
    ELSE [flag |-> FALSE, called |-> TRUE]

\* ------------------------------------------------------------- retry
\* most attempts a caller of retry asks for
MaxTries == 4

ErrorTypes == {"TimeoutError", "ValueError"}
\* what the wrapped callable may return (fetch_lg_indicator returns None when
\* the provider has no rows)
RetryValues == {[row |-> 1], None}
\* one invocation of the wrapped callable: a value, or an exception
CallOutcomes ==
    [ok : {TRUE}, val : RetryValues, err : {NoTag}] \cup
    [ok : {FALSE}, val : {None}, err : ErrorTypes]

\* the loop's state at the top of `for i in range(tries)`; tries = 0 falls
\* straight through to `return None, last_err`
RetryStart(tries) ==
    [done |-> (tries <= 0), i |-> 0, last_err |-> NoTag, val |-> None, err |-> NoTag,
     calls |-> 0, sleeps |-> <<>>]

\* mutant: a failure of the last attempt is retried once more
RetryStepOneMore(st, tries, out) ==
    IF out.ok
    THEN [st EXCEPT !.done = TRUE, !.val = out.val, !.err = NoTag, !.calls = @ + 1]
    ELSE [st EXCEPT !.done = (st.i + 1 > tries), !.i = @ + 1, !.last_err = out.err,
                    !.err = IF st.i + 1 > tries THEN out.err ELSE NoTag,
                    !.calls = @ + 1, !.sleeps = Append(@, st.i)]

\* mutant: the first failure is returned at once
RetryStepNoRetry(st, tries, out) ==
    IF out.ok
    THEN [st EXCEPT !.done = TRUE, !.val = out.val, !.err = NoTag, !.calls = @ + 1]
    ELSE [st EXCEPT !.done = TRUE, !.i = @ + 1, !.last_err = out.err,
                    !.err = out.err, !.calls = @ + 1, !.sleeps = Append(@, st.i)]

\* one iteration of the loop: callable_fn() returns (return value, None), or
\* raises (remember the error, sleep base_sleep * 1.6 ** i, next i); after the
\* last iteration the function returns (None, last_err)
RetryStep(st, tries, out) ==
    IF out.ok
    THEN [st EXCEPT !.done = TRUE, !.val = out.val, !.err = NoTag, !.calls = @ + 1]
    ELSE [st EXCEPT !.done = (st.i + 1 >= tries), !.i = @ + 1, !.last_err = out.err,
                    !.err = IF st.i + 1 >= tries THEN out.err ELSE NoTag,
                    !.calls = @ + 1, !.sleeps = Append(@, st.i)]

\* retry(callable_fn, tries) run to its return, outs[k] being the outcome of
\* the k-th invocation of callable_fn
RECURSIVE RetryLoop(_, _, _)
RetryLoop(st, tries, outs) ==
    IF st.done \/ st.calls >= Len(outs) THEN st
    ELSE RetryLoop(RetryStep(st, tries, outs[st.calls + 1]), tries, outs)

retry(outs, tries) == RetryLoop(RetryStart(tries), tries, outs)

\* --------------------------------------------------------- exceptions
\* a call that returned v
Ret(v) == [exc |-> FALSE, val |-> v]
\* a call that raised
Raised == [exc |-> TRUE, val |-> None]
\* try: r  except Exception: (the handler's value h)
Catch(r, h) == IF r.exc THEN Ret(h) ELSE r

\* ------------------------------------------------- upstream data frames
\* What a provider call that returns a DataFrame can do: raise, return None,
\* return a bare DataFrame() (no columns, no rows), return its columns with
\* zero rows, return rows.
FrameOutcomes == {"raise", "none", "bare", "empty", "ok"}
\* the financial abstract may also come without a share-capital line
AbstractOutcomes == FrameOutcomes \cup {"ok_nocap"}

\* to_datetime(..., errors='coerce') of an unparseable date
NaT == 0
\* raw report dates of a provider's frame, in the provider's order; 0 stands
\* for a date string that does not parse
SampleDates == <<3, 0, 1, 2>>
\* number of line-item columns of a provider's frame
SampleItems == 2
\* the share-capital line of the provider's financial abstract
SampleShareCapital == 3

ParseDate(d) == IF d >= 1 THEN d ELSE NaT

\* one step of the sort: ascending, NaT last
RECURSIVE InsertAsc(_, _)
InsertAsc(x, s) ==
    IF s = <<>> THEN <<x>>
    ELSE IF Head(s) = NaT \/ (x # NaT /\ x < Head(s)) THEN <<x>> \o s
    ELSE <<Head(s)>> \o InsertAsc(x, Tail(s))

\* sort_values(date column)
RECURSIVE SortDates(_)
SortDates(s) == IF s = <<>> THEN <<>> ELSE InsertAsc(Head(s), SortDates(Tail(s)))

SelectSeqNotNaT(s) == SelectSeq(s, LAMBDA d : d # NaT)

\* the frame a provider call returns for category cat
Frame(cat, o) ==
    [cat |-> cat, cols |-> (o # "bare"),
     dates |-> IF o = "ok" THEN SampleDates ELSE <<>>,
     items |-> IF o = "bare" THEN 0 ELSE SampleItems]

IsTable(v) == v # None
IsEmptyTable(v) == v # None /\ v.dates = <<>>

\* ---------------------------------------------- the pooled category fetchers
\* body of fetch_financial_abstract's try block.  The provider's frame is
\* transposed (one row per indicator, one column per report date): a frame
\* with no indicator rows still has its date columns.
FinancialAbstractBody(o) ==
    IF o \in {"raise", "none", "bare"} THEN Raised
    ELSE Ret([cat |-> "financial_abstract", cols |-> TRUE,
              dates |-> SortDates(SelectSeqNotNaT([i \in 1..Len(SampleDates) |->
                                                   ParseDate(SampleDates[i])])),
              items |-> IF o \in {"ok", "ok_nocap"} THEN SampleItems ELSE 0,
              share_capital |-> IF o = "ok" THEN SampleShareCapital ELSE 0])

fetch_financial_abstract(o) == Catch(FinancialAbstractBody(o), None)

\* body of the try block of fetch_balance_sheet, fetch_income_statement and
\* fetch_cash_flow: df[date column] raises on None and on a frame without
\* that column
SinaReportBody(cat, o) ==
    IF o \in {"raise", "none", "bare"} THEN Raised
    ELSE LET df == Frame(cat, o)
         IN  Ret([df EXCEPT !.dates = SortDates([i \in 1..Len(df.dates) |->
                                                 ParseDate(df.dates[i])])])

fetch_balance_sheet(o) == Catch(SinaReportBody("balance_sheet", o), None)

fetch_income_statement(o) == Catch(SinaReportBody("income_statement", o), None)

fetch_cash_flow(o) == Catch(SinaReportBody("cash_flow", o), None)

\* the primary provider's price-history columns (the source's Chinese labels
\* for date, open, high, low, close, volume, amount)
AkKlineCols == {"riqi", "kaipan", "zuigao", "zuidi", "shoupan", "chengjiaoliang",
                "chengjiaoe"}
\* closes of a provider's price history, in hundredths
SampleCloses == <<1000, 1050>>

AkKline(stock_code) ==
    [cat |-> "kline", src |-> "akshare", code |-> stock_code, cols |-> AkKlineCols,
     closes |-> SampleCloses]

fetch_kline_data(stock_code, o) ==
    IF o = "raise" THEN Catch(Raised, None)
    ELSE IF o = "ok" THEN Ret(AkKline(stock_code))
    ELSE Ret(None)

\* len(df) raises on None; any frame, empty or not, is returned
DividendBody(o) ==
    IF o \in {"raise", "none"} THEN Raised ELSE Ret(Frame("dividend", o))

fetch_dividend_data(o) == Catch(DividendBody(o), None)

fetch_northbound_data(o) ==
    IF o = "raise" THEN Catch(Raised, None)
    ELSE IF o = "ok" THEN Ret(Frame("northbound", o))
    ELSE Ret(None)

\* ------------------------------------------- fetch_financial_indicators
\* the primary indicator query: raise, None, an empty frame, rows in which no
\* indicator column parses, rows with only ROE, rows with all four
IndicatorOutcomes == {"raise", "none", "empty", "novals", "partial", "vals"}

NoIndicators ==
    [roe_pct |-> NoTag, gross_margin_pct |-> NoTag, net_margin_pct |-> NoTag,
     debt_ratio_pct |-> NoTag, source |-> NoTag]

AllNone(ind) ==
    /\ ind.roe_pct = NoTag /\ ind.gross_margin_pct = NoTag
    /\ ind.net_margin_pct = NoTag /\ ind.debt_ratio_pct = NoTag

\* one secondary query of bs_latest_value (one quarter): raise, a non-zero
\* error_code, no rows, a row without the wanted field, a row whose field does
\* not parse, a row with a value
BsQueryOutcomes == {"raise", "err", "norows", "nofield", "badvalue", "value"}

\* bs_latest_value: the quarters are tried newest first; the first row that
\* has the field decides, also when its value does not parse.  A value is
\* the name of the provider it comes from.
RECURSIVE bs_latest_value(_)
bs_latest_value(qs) ==
    IF qs = <<>> THEN Ret(NoTag)
    ELSE IF Head(qs) = "raise" THEN Raised
    ELSE IF Head(qs) = "value" THEN Ret("baostock")
    ELSE IF Head(qs) = "badvalue" THEN Ret(NoTag)
    ELSE bs_latest_value(Tail(qs))

\* the primary tier (the first try block)
IndicatorsPrimary(oa) ==
    IF oa \in {"raise", "none", "empty"} THEN NoIndicators
    ELSE [roe_pct |-> IF oa \in {"partial", "vals"} THEN "akshare" ELSE NoTag,
          gross_margin_pct |-> IF oa = "vals" THEN "akshare" ELSE NoTag,
          net_margin_pct |-> IF oa = "vals" THEN "akshare" ELSE NoTag,
          debt_ratio_pct |-> IF oa = "vals" THEN "akshare" ELSE NoTag,
          source |-> "ak_indicator"]

\* the four assignments of the secondary tier and the source tag, in order;
\* an exception leaves the assignments made before it
IndicatorsSecondary(ind, b) ==
    IF b[1].exc THEN ind
    ELSE LET i1 == [ind EXCEPT !.roe_pct = b[1].val] IN
         IF b[2].exc THEN i1
         ELSE LET i2 == [i1 EXCEPT !.net_margin_pct = b[2].val] IN
              IF b[3].exc THEN i2
              ELSE LET i3 == [i2 EXCEPT !.gross_margin_pct = b[3].val] IN
                   IF b[4].exc THEN i3
                   ELSE [i3 EXCEPT !.debt_ratio_pct = b[4].val,
                                   !.source = "baostock"]

\* fetch_financial_indicators: oa is the primary query's outcome, lo the
\* outcome of bs.login() if it is called, b the four bs_latest_value results
fetch_financial_indicators(has, flag, oa, lo, b) ==
    LET ind == IndicatorsPrimary(oa) IN
    IF has /\ AllNone(ind)
    THEN LET lg == _bs_login(has, flag, lo)
         IN  [exc |-> FALSE, flag |-> lg.flag,
              val |-> IF lg.ret THEN IndicatorsSecondary(ind, b) ELSE ind]
    ELSE [exc |-> FALSE, val |-> ind, flag |-> flag]

\* ------------------------------------------------------ fetch_company_info
\* the profile before any tier resolved a field: the name is the code itself,
\* the industry is the source's 'unknown' label, the share count is 0
UnknownIndustry == "unknown"
\* share counts the tiers supply (tier 1, the snapshot's market value over
\* price, the secondary's balance data)
SharesEm == 100
SharesSpot == 200
SharesBs == 300

\* outcomes of tier 1 (the profile endpoint): an exception, or the rows found
InfoOutcomes ==
    {[kind |-> "raise"]} \cup
    [kind : {"ok"}, name : BOOLEAN, industry : BOOLEAN, shares : BOOLEAN]
\* outcomes of tier 2 (the code/name list)
NameListOutcomes == {"raise", "norow", "row"}
\* outcomes of tier 3 (the market snapshot): an exception, no row for the
\* code, or a row with or without an industry and a usable market value
SpotInfoOutcomes ==
    {[kind |-> "raise"], [kind |-> "norow"]} \cup
    [kind : {"row"}, industry : BOOLEAN, mv : BOOLEAN]
\* outcomes of one secondary profile query
BsInfoOutcomes == {"raise", "err", "norow", "row"}

CompanyTier1(stock_code, o1) ==
    IF o1.kind = "raise"
    THEN [stock_name |-> stock_code, industry |-> UnknownIndustry, total_shares |-> 0]
    ELSE [stock_name |-> IF o1.name THEN <<"name", "em">> ELSE stock_code,
          industry |-> IF o1.industry THEN "industry/em" ELSE UnknownIndustry,
          total_shares |-> IF o1.shares THEN SharesEm ELSE 0]

\* the test before tier 2
CompanyTier2Wanted(stock_code, ci) == ci.stock_name = stock_code

CompanyTier2(stock_code, ci, o2) ==
    IF CompanyTier2Wanted(stock_code, ci) /\ o2 = "row"
    THEN [ci EXCEPT !.stock_name = <<"name", "codelist">>]
    ELSE ci

\* the test before tier 3
CompanyTier3Wanted(ci) == ci.industry = UnknownIndustry \/ ci.total_shares = 0

CompanyTier3Overwrite(ci, o3) ==
    IF CompanyTier3Wanted(ci) /\ o3.kind = "row"
    THEN [ci EXCEPT
            !.industry = IF o3.industry THEN "industry/spot" ELSE @,
            !.total_shares = IF @ = 0 /\ o3.mv THEN SharesSpot ELSE @]
    ELSE ci
CompanyTier3(ci, o3) ==
    IF CompanyTier3Wanted(ci) /\ o3.kind = "row"
    THEN [ci EXCEPT
            !.industry = IF @ = UnknownIndustry /\ o3.industry
                         THEN "industry/spot" ELSE @,
            !.total_shares = IF @ = 0 /\ o3.mv THEN SharesSpot ELSE @]
    ELSE ci

\* the secondary tier's three queries, inside one try block: an exception in
\* one of them skips the ones after it
CompanyTier4Queries(stock_code, ci, q1, q2, q3) ==
    LET needName == ci.stock_name = stock_code
        c1 == IF needName /\ q1 = "row"
              THEN [ci EXCEPT !.stock_name = <<"name", "baostock">>] ELSE ci
        stop1 == needName /\ q1 = "raise"
        needInd == ci.industry = UnknownIndustry
        c2 == IF ~stop1 /\ needInd /\ q2 = "row"
              THEN [c1 EXCEPT !.industry = "industry/baostock"] ELSE c1
        stop2 == stop1 \/ (needInd /\ q2 = "raise")
        needShares == ci.total_shares = 0
    IN  IF ~stop2 /\ needShares /\ q3 = "row"
        THEN [c2 EXCEPT !.total_shares = SharesBs] ELSE c2

CompanyNeedsBs(has, stock_code, ci) ==
    has /\ (ci.industry = UnknownIndustry \/ ci.total_shares = 0
            \/ ci.stock_name = stock_code)

\* mutant: tier 1 has no try/except
CompanyInfoNoCatch(has, flag, stock_code, o1, o2, o3, lo, q1, q2, q3) ==
    LET c3 == CompanyTier3(CompanyTier2(stock_code, CompanyTier1(stock_code, o1), o2), o3)
    IN  [exc |-> (o1.kind = "raise"), val |-> c3, flag |-> flag]

\* fetch_company_info: o1..o3 are the outcomes of the three primary tiers, lo
\* of bs.login(), q1..q3 of the secondary's name, industry and balance queries
fetch_company_info(has, flag, stock_code, o1, o2, o3, lo, q1, q2, q3) ==
    LET c3 == CompanyTier3(CompanyTier2(stock_code, CompanyTier1(stock_code, o1), o2), o3)
    IN  IF CompanyNeedsBs(has, stock_code, c3)
        THEN LET lg == _bs_login(has, flag, lo)
             IN  [exc |-> FALSE, flag |-> lg.flag,
                  val |-> IF lg.ret
                          THEN CompanyTier4Queries(stock_code, c3, q1, q2, q3)
                          ELSE c3]
        ELSE [exc |-> FALSE, val |-> c3, flag |-> flag]

\* ------------------------------------------- the secondary's price history
\* the secondary's field names and the primary's column each is renamed to
BsKlineFields == {"date", "open", "high", "low", "close", "volume", "amount"}

KlineRename(c) ==
    CASE c = "date" -> "riqi"
      [] c = "open" -> "kaipan"
      [] c = "high" -> "zuigao"
      [] c = "low" -> "zuidi"
      [] c = "close" -> "shoupan"
      [] c = "volume" -> "chengjiaoliang"
      [] c = "amount" -> "chengjiaoe"
      [] OTHER -> c

\* closes of the secondary's price history, in hundredths
SampleBsCloses == <<990, 1040>>

\* outcomes of query_history_k_data_plus: an exception, a non-zero
\* error_code, no rows, rows
BsKlineOutcomes == {"raise", "err", "norows", "rows"}

BsKline(stock_code) ==
    [cat |-> "kline", src |-> "baostock", code |-> _to_bs_code(stock_code),
     cols |-> {KlineRename(c) : c \in BsKlineFields}, closes |-> SampleBsCloses]

\* the prefetch at the top of fetch_all_data: the flag after it and
\* bs_kline_fallback
BsKlinePrefetch(has, flag, stock_code, lo, q) ==
    IF ~has THEN [flag |-> flag, bsk |-> None]
    ELSE LET lg == _bs_login(has, flag, lo)
         IN  [flag |-> lg.flag,
              bsk |-> IF lg.ret /\ q = "rows" THEN BsKline(stock_code) ELSE None]

\* ---------------------------------------------------- fetch_shareholder_data
RosterOutcomes == {"raise", "none", "empty", "ok"}

SampleLatestRoster == <<[name |-> "A", shares |-> 5], [name |-> "B", shares |-> 3]>>
SamplePrevRoster == <<[name |-> "A", shares |-> 4], [name |-> "C", shares |-> 1]>>

\* Series.unique(): first occurrences, in order
RECURSIVE UniqueSeq(_)
UniqueSeq(s) ==
    IF s = <<>> THEN <<>>
    ELSE LET r == UniqueSeq(SubSeq(s, 1, Len(s) - 1))
         IN  IF \E i \in 1..Len(r) : r[i] = s[Len(s)] THEN r ELSE Append(r, s[Len(s)])

\* pd.merge(latest, prev, on=name, how='left') and the change column: a
\* holder without a match has its previous count filled with 0
RECURSIVE MergeRoster(_, _)
MergeRoster(latest, prev) ==
    IF latest = <<>> THEN <<>>
    ELSE LET l == Head(latest)
             m == SelectSeq(prev, LAMBDA p : p.name = l.name)
             rows == IF m = <<>>
                     THEN <<[name |-> l.name, shares |-> l.shares,
                             change |-> l.shares - 0]>>
                     ELSE [i \in 1..Len(m) |->
                             [name |-> l.name, shares |-> l.shares,
                              change |-> l.shares - m[i].shares]]
         IN  rows \o MergeRoster(Tail(latest), prev)

\* lines 349-382 for the two rosters the provider returned: a roster is
\* [kind |-> "raise"], [kind |-> "none"] or [kind |-> "frame", rows |-> seq]
ShareholderRoster(fa, df_latest, df_prev) ==
    IF fa = None \/ Len(fa.dates) < 2 THEN Ret(None)
    ELSE LET dates == UniqueSeq(fa.dates) IN
         IF Len(dates) < 2 THEN Raised
         ELSE LET d == [latest |-> dates[Len(dates)], prev |-> dates[Len(dates) - 1]] IN
              IF df_latest.kind # "frame" \/ df_latest.rows = <<>> THEN Ret(None)
              ELSE IF df_prev.kind = "frame" /\ df_prev.rows # <<>>
                   THEN Ret([latest |-> MergeRoster(df_latest.rows, df_prev.rows),
                             dates |-> d])
                   ELSE Ret([latest |-> [i \in 1..Len(df_latest.rows) |->
                                           [name |-> df_latest.rows[i].name,
                                            shares |-> df_latest.rows[i].shares,
                                            change |-> 0]],
                             dates |-> d])

RosterOf(o, sample) ==
    IF o = "ok" THEN [kind |-> "frame", rows |-> sample]
    ELSE IF o = "empty" THEN [kind |-> "frame", rows |-> <<>>]
    ELSE [kind |-> o]

ShareholderBody(fa, oL, oP) ==
    ShareholderRoster(fa, RosterOf(oL, SampleLatestRoster),
                      RosterOf(oP, SamplePrevRoster))

fetch_shareholder_data(fa, oL, oP) == Catch(ShareholderBody(fa, oL, oP), None)

\* -------------------------------------------------- fetch_current_valuation
\* Prices are in hundredths, percentages in hundredths of a percent.
\* outcomes of the 45-day history query made when no price history was passed
HistOutcomes == {"raise", "none", "short", "ok"}
SampleHistCloses == <<980, 1029>>

\* one endpoint of fetch_lg_indicator: the function is missing from the
\* provider module, it raises, returns None, returns no rows, or its last row
LgOutcomes ==
    {[kind |-> k] : k \in {"missing", "raise", "none", "empty"}} \cup
    [kind : {"row"}, pe : {0, 15}, pb : {0, 2}]

\* the snapshot row of the code: the query raises, has no row for the code,
\* or has one (with or without the two ratios)
SpotOutcomes ==
    {[kind |-> "raise"], [kind |-> "norow"]} \cup
    [kind : {"row"}, price : {1100}, pe : {0, 16}, pb : {0, 3}, total_mv : {0, 5000},
     circ_mv : {4000}, turnover : {1}, volume_ratio : {1}, change_pct : {200}]

\* the secondary's daily indicator query: raises, a non-zero error_code, no
\* rows, or its last row
BsValuationOutcomes ==
    {[kind |-> k] : k \in {"raise", "err", "norows"}} \cup
    [kind : {"row"}, peTTM : {0, 17}, pbMRQ : {0, 4}, close : {0, 1040}, turn : {2}]

\* (price - prev_close) / prev_close * 100
PctChange(price, prev_close) == ((price - prev_close) * 10000) \div prev_close

\* the last two closes give the fallback price and change
FallbackFromCloses(closes) ==
    LET price == closes[Len(closes)]
        prev_close == closes[Len(closes) - 1]
    IN  [price |-> price,
         change_pct |-> IF prev_close > 0 THEN PctChange(price, prev_close) ELSE 0]

\* the first try block: from the price history passed in when it has two
\* rows, else from a 45-day history query
ValuationFallback(stock_kline, oh) ==
    IF stock_kline # None /\ Len(stock_kline.closes) >= 2
    THEN FallbackFromCloses(stock_kline.closes)
    ELSE IF oh = "ok" THEN FallbackFromCloses(SampleHistCloses)
    ELSE [price |-> 0, change_pct |-> 0]

\* fetch_lg_indicator: the two endpoint names in turn; a missing function or
\* an empty frame moves on, an exception leaves the function
fetch_lg_indicator(e1, e2) ==
    IF e1.kind = "raise" THEN Raised
    ELSE IF e1.kind = "row" THEN Ret(e1)
    ELSE IF e2.kind = "raise" THEN Raised
    ELSE IF e2.kind = "row" THEN Ret(e2)
    ELSE Ret(None)

\* fetch_spot_one
fetch_spot_one(os) ==
    IF os.kind = "raise" THEN Raised
    ELSE IF os.kind = "row" THEN Ret(os)
    ELSE Ret(None)

\* one invocation of a callable, as retry sees it
AsCall(r) ==
    IF r.exc THEN [ok |-> FALSE, val |-> None, err |-> "Exception"]
    ELSE [ok |-> TRUE, val |-> r.val, err |-> NoTag]

\* attempts the indicator tier is given
LgTries == 2
\* attempts the snapshot tier is given
SpotTries == 1

\* what retry(fetch_lg_indicator, tries=2) gives: lgs[k] is the pair of
\* endpoint outcomes of attempt k
LgTierRow(lgs) ==
    retry([k \in 1..Len(lgs) |-> AsCall(fetch_lg_indicator(lgs[k][1], lgs[k][2]))],
          LgTries).val

\* the indicator tier
ValuationLgTier(cv, lgs) ==
    LET last == LgTierRow(lgs)
    IN  IF last # None
        THEN Ret([cv EXCEPT !.pe_ttm = last.pe, !.pb = last.pb,
                            !.source = "lg_indicator"])
        ELSE Ret(cv)

\* the test before the snapshot tier
SpotTierAlways(cv) == TRUE
SpotTierWanted(cv) == cv.pe_ttm = 0 /\ cv.pb = 0

\* what retry(fetch_spot_one, tries=1) gives
SpotTierRow(os) == retry(<<AsCall(fetch_spot_one(os))>>, SpotTries).val

\* the snapshot tier
ValuationSpotTier(cv, os) ==
    IF SpotTierWanted(cv)
    THEN LET row == SpotTierRow(os)
         IN  IF row # None
             THEN Ret([cv EXCEPT !.price = row.price, !.pe_ttm = row.pe,
                                 !.pb = row.pb, !.total_mv = row.total_mv,
                                 !.circ_mv = row.circ_mv, !.turnover = row.turnover,
                                 !.volume_ratio = row.volume_ratio,
                                 !.change_pct = row.change_pct, !.source = "spot_em"])
             ELSE Ret(cv)
    ELSE Ret(cv)

\* the test before the secondary tier
BsTierWanted(has, cv) == has /\ cv.pe_ttm = 0 /\ cv.pb = 0

\* a or b of Python, for numbers
OrElse(a, b) == IF a # 0 THEN a ELSE b

\* the secondary tier, once logged in
ValuationBsTier(cv, qb) ==
    IF qb.kind = "row"
    THEN [cv EXCEPT !.price = OrElse(qb.close, @), !.pe_ttm = OrElse(qb.peTTM, @),
                    !.pb = OrElse(qb.pbMRQ, @), !.turnover = OrElse(qb.turn, @),
                    !.source = "baostock"]
    ELSE cv

\* the market value derived from price and share count
ValuationDeriveKeepTag(cv, total_shares) ==
    IF cv.total_mv = 0 /\ total_shares # 0 /\ cv.price > 0
    THEN [cv EXCEPT !.total_mv = cv.price * total_shares]
    ELSE cv
ValuationDerive(cv, total_shares) ==
    IF cv.total_mv = 0 /\ total_shares # 0 /\ cv.price > 0
    THEN [cv EXCEPT !.total_mv = cv.price * total_shares,
                    !.source = IF @ = "fallback" THEN "derived" ELSE @]
    ELSE cv

\* the tiers after the fallback record is built; the indicator and snapshot
\* tiers are not inside a try block, the secondary tier is
ValuationTiers(has, flag, cv0, total_shares, t1, os, lo, qb) ==
    IF t1.exc THEN [exc |-> TRUE, val |-> None, flag |-> flag]
    ELSE LET t2 == ValuationSpotTier(t1.val, os) IN
         IF t2.exc THEN [exc |-> TRUE, val |-> None, flag |-> flag]
         ELSE LET cv2 == t2.val
                  useBs == BsTierWanted(has, cv2)
                  lg == _bs_login(has, flag, lo)
                  cv3 == IF useBs /\ lg.ret THEN ValuationBsTier(cv2, qb) ELSE cv2
              IN  [exc |-> FALSE, val |-> ValuationDerive(cv3, total_shares),
                   flag |-> IF useBs THEN lg.flag ELSE flag]

ValuationStart(stock_kline, oh) ==
    LET fb == ValuationFallback(stock_kline, oh)
    IN  [price |-> fb.price, pe_ttm |-> 0, pb |-> 0, total_mv |-> 0,
         circ_mv |-> 0, turnover |-> 0, volume_ratio |-> 0,
         change_pct |-> fb.change_pct, source |-> "fallback"]

\* fetch_current_valuation: oh is the outcome of the short history query,
\* lgs of the indicator endpoints per attempt, os of the snapshot query, lo
\* of bs.login(), qb of the secondary's daily indicator query
fetch_current_valuation(has, flag, stock_kline, total_shares, oh, lgs, os, lo, qb) ==
    LET cv0 == ValuationStart(stock_kline, oh)
    IN  ValuationTiers(has, flag, cv0, total_shares, ValuationLgTier(cv0, lgs), os, lo, qb)

\* when a share-capital value is taken to be in units of ten thousand
ShareScaleThreshold == 10000000
ShareScale == 10000

\* the share count taken from the latest row of the financial abstract when
\* the profile found none (fetch_all_data); iloc[-1] raises on a frame
\* without rows, inside the try block
SharesFromAbstract(total_shares, fa) ==
    IF total_shares = 0 /\ fa # None /\ fa.dates # <<>> /\ fa.share_capital # 0
    THEN LET val == IF fa.share_capital < ShareScaleThreshold
                    THEN fa.share_capital * ShareScale ELSE fa.share_capital
         IN  IF val > 0 THEN val ELSE total_shares
    ELSE total_shares

\* ------------------------------------------------- _safe_float (analysis)
\* the unknown number (NaN): not equal to any value a statement holds
NaN == -1000000
\* a cell that is no number: '--', '' or text float() rejects
Placeholder == -1000001
\* the default _safe_float returns for such a cell
SafeFloatDefault == 0

_safe_float(value) ==
    IF value = NaN \/ value = Placeholder THEN SafeFloatDefault ELSE value

\* ------------------------------------- calculate_single_quarter_data (analysis)
\* A statement is a set of rows, one per period end date; a row carries its
\* date (year, month), one flow column (rev: its name holds one of the flow
\* keywords and its dtype is numeric) and one column that is not a flow
\* column (assets).
DateKey(r) == r.year * 100 + r.month

\* df.sort_values of the date column
RECURSIVE SortByDate(_)
SortByDate(rows) ==
    IF rows = {} THEN <<>>
    ELSE LET first == CHOOSE r \in rows : \A x \in rows : DateKey(r) <= DateKey(x)
         IN  <<first>> \o SortByDate(rows \ {first})

\* lines 47-54: the columns of cols_to_diff of one row
DiffRowSkipZero(row, prev_row) ==
    LET curr_val == _safe_float(row.rev)
        prev_val == _safe_float(prev_row.rev)
    IN  [row EXCEPT !.rev = IF curr_val # 0 /\ prev_val # 0
                            THEN curr_val - prev_val ELSE @]
DiffRowAllColumns(row, prev_row) ==
    LET curr_val == _safe_float(row.rev)
        prev_val == _safe_float(prev_row.rev)
    IN  [row EXCEPT !.rev = IF curr_val # 0 \/ prev_val # 0
                            THEN curr_val - prev_val ELSE @,
                    !.assets = @ - prev_row.assets]
DiffRow(row, prev_row) ==
    LET curr_val == _safe_float(row.rev)
        prev_val == _safe_float(prev_row.rev)
    IN  [row EXCEPT !.rev = IF curr_val # 0 \/ prev_val # 0
                            THEN curr_val - prev_val ELSE @]

\* lines 40-55: the rows of one year from position k on, prev_row being the
\* row of the original frame seen before
RECURSIVE DiffYearChained(_, _, _)
DiffYearChained(year_data, k, prev_row) ==
    IF k > Len(year_data) THEN <<>>
    ELSE LET row == year_data[k]
             q == IF row.month # 3 /\ prev_row # None THEN DiffRow(row, prev_row)
                  ELSE row
         IN  <<q>> \o DiffYearChained(year_data, k + 1, q)
RECURSIVE DiffYear(_, _, _)
DiffYear(year_data, k, prev_row) ==
    IF k > Len(year_data) THEN <<>>
    ELSE LET row == year_data[k]
         IN  IF row.month = 3 THEN <<row>> \o DiffYear(year_data, k + 1, row)
             ELSE <<IF prev_row # None THEN DiffRow(row, prev_row) ELSE row>>
                  \o DiffYear(year_data, k + 1, row)

\* lines 35-38: one year of the frame
YearData(df, year) == SelectSeq(df, LAMBDA r : r.year = year)
QuarterYear(df, year) ==
    LET year_data == YearData(df, year)
    IN  IF Len(year_data) < 2 THEN year_data ELSE DiffYear(year_data, 1, None)

\* lines 26-30: a flow column is differenced only when its dtype is float
\* or int, which a column holding a placeholder string is not
ColsToDiff(df) ==
    IF \E i \in DOMAIN df : df[i].rev = Placeholder THEN {} ELSE {"rev"}

\* the frame sorted by date, each row replaced by the row of its year's
\* result at the same position
calculate_single_quarter_data(frame) ==
    IF frame.kind = "none" \/ frame.rows = {} THEN frame
    ELSE LET df == SortByDate(frame.rows)
             pos(i) == Cardinality({j \in 1..i : df[j].year = df[i].year})
         IN  [kind |-> "frame",
              rows |-> IF "rev" \in ColsToDiff(df)
                       THEN [i \in 1..Len(df) |-> QuarterYear(df, df[i].year)[pos(i)]]
                       ELSE df]

\* ------------------------------------------------ calculate_ttm_series
\* A frame is absent, or has rows [year, month, val] with unique dates and
\* may lack the column asked for. A series is a function from date keys.
EmptySeries == [k \in {} |-> NaN]

\* line 122
TtmValueNoSubtract(curr_val, val_annual, val_same) == curr_val + val_annual
TtmValue(curr_val, val_annual, val_same) == curr_val + val_annual - val_same

\* lines 107-108: the column after _safe_float
TempRows(rows) == {[r EXCEPT !.val = _safe_float(@)] : r \in rows}

\* lines 112-124: the value of one row of temp_df
TtmOfRow(temp_df, row) ==
    IF row.month = 12 THEN row.val
    ELSE LET prev_annual == {r \in temp_df : r.year = row.year - 1 /\ r.month = 12}
             prev_same == {r \in temp_df : r.year = row.year - 1 /\ r.month = row.month}
         IN  IF prev_annual # {} /\ prev_same # {}
             THEN TtmValue(row.val, (CHOOSE r \in prev_annual : TRUE).val,
                           (CHOOSE r \in prev_same : TRUE).val)
             ELSE NaN

calculate_ttm_series(frame) ==
    IF frame.kind = "none" \/ ~frame.hascol THEN EmptySeries
    ELSE LET temp_df == TempRows(frame.rows)
         IN  [k \in {DateKey(r) : r \in temp_df} |->
                 TtmOfRow(temp_df, CHOOSE r \in temp_df : DateKey(r) = k)]

\* ------------------------------------------------- prepare_advanced_data
\* A statement frame is absent or has a set of columns and rows
\* [year, month, rev, profit, ocf]; a balance sheet has rows [date, equity];
\* the price history has bars [date, close]. Dates of the price calendar and
\* of the joined series are yyyymmdd numbers. Ratios are integer quotients.
PosInf == 1000000
NegInf == -1000002

\* the report period's end date, the value of the date column of a row
EndDay(month) == IF month \in {6, 9} THEN 30 ELSE 31
PeriodEnd(k) == k * 100 + EndDay(k % 100)

\* lines 133-139: next((c for c in df.columns if ...), None) for one column
ColumnOf(frame, col) ==
    IF frame.kind = "none" THEN [kind |-> "none"]
    ELSE [kind |-> "frame", hascol |-> col \in frame.cols,
          rows |-> {[year |-> r.year, month |-> r.month, val |-> r[col]] :
                    r \in frame.rows}]

\* lines 141-147: a TTM series, indexed by the values of the date column
TtmByDate(frame, col) ==
    LET s == calculate_ttm_series(ColumnOf(frame, col))
    IN  [d \in {PeriodEnd(k) : k \in DOMAIN s} |->
            s[CHOOSE k \in DOMAIN s : PeriodEnd(k) = d]]

\* lines 154-160: equity_series, every cell through _safe_float
EquitySeries(bs_df) ==
    IF bs_df.kind = "none" \/ ~bs_df.haseq THEN EmptySeries
    ELSE [d \in {r.date : r \in bs_df.rows} |->
            _safe_float((CHOOSE r \in bs_df.rows : r.date = d).equity)]

\* line 150: set_index('日期').sort_index()
RECURSIVE SortIndex(_)
SortIndex(bars) ==
    IF bars = {} THEN <<>>
    ELSE LET first == CHOOSE b \in bars : \A x \in bars : b.date <= x.date
         IN  <<first>> \o SortIndex(bars \ {first})

\* DataFrame.join(series, how='left'): the series' value at the row's own
\* index label, unknown when the series has no such label
LeftJoin(full_df, name, series) ==
    [i \in DOMAIN full_df |->
        [f \in DOMAIN full_df[i] \cup {name} |->
            IF f # name THEN full_df[i][f]
            ELSE IF full_df[i].date \in DOMAIN series
                 THEN series[full_df[i].date] ELSE NaN]]

\* DataFrame.ffill(): every unknown cell takes the cell above it
RECURSIVE FFill(_)
FFill(full_df) ==
    IF Len(full_df) <= 1 THEN full_df
    ELSE LET n == Len(full_df)
             above == FFill(SubSeq(full_df, 1, n - 1))
             row == full_df[n]
         IN  Append(above, [f \in DOMAIN row |->
                              IF row[f] = NaN THEN above[n - 1][f] ELSE row[f]])

\* line 165: dropna(subset=['收盘'])
DropNaCloseKeepAll(full_df) == full_df
DropNaClose(full_df) == SelectSeq(full_df, LAMBDA r : r.close # NaN)

\* pandas arithmetic on float columns
Times(a, b) == IF a = NaN \/ b = NaN THEN NaN ELSE a * b
Over(a, b) ==
    IF a = NaN \/ b = NaN THEN NaN
    ELSE IF b = 0 THEN (IF a > 0 THEN PosInf ELSE IF a < 0 THEN NegInf ELSE NaN)
    ELSE a \div b

\* lines 167-170
Ratios(row, total_shares) ==
    LET market_cap == Times(row.close, total_shares)
    IN  [date |-> row.date, close |-> row.close, ttm_profit |-> row.ttm_profit,
         ttm_rev |-> row.ttm_rev, equity |-> row.equity,
         market_cap |-> market_cap, pe |-> Over(market_cap, row.ttm_profit),
         pb |-> Over(market_cap, row.equity), ps |-> Over(market_cap, row.ttm_rev)]

\* lines 149-171
ValuationDaily(stock_kline, ttm_profit, ttm_rev, bs_df, total_shares) ==
    LET kline == SortIndex(stock_kline.bars)
        j1 == FFill(LeftJoin(kline, "ttm_profit", ttm_profit))
        j2 == FFill(LeftJoin(j1, "ttm_rev", ttm_rev))
        j3 == FFill(LeftJoin(j2, "equity", EquitySeries(bs_df)))
        full_df == DropNaClose(j3)
    IN  [i \in DOMAIN full_df |-> Ratios(full_df[i], total_shares)]

\* lines 128-173; inc_df.columns or abs_df.columns of an absent frame raises
prepare_advanced_data(analyzer) ==
    LET inc_df == analyzer.income_statement
        cf_df == analyzer.cash_flow_data
        abs_df == analyzer.financial_data
        src == IF inc_df.kind # "none" THEN inc_df ELSE abs_df
        ttm_rev == TtmByDate(src, "rev")
        ttm_profit == IF inc_df.kind # "none" THEN TtmByDate(inc_df, "profit")
                      ELSE EmptySeries
        ttm_ocf == TtmByDate(cf_df, "ocf")
    IN  IF inc_df.kind = "none" /\ abs_df.kind = "none"
        THEN Raised
        ELSE Ret([ttm_rev |-> ttm_rev, ttm_profit |-> ttm_profit,
                  ttm_ocf |-> ttm_ocf,
                  valuation_daily |->
                     IF analyzer.stock_kline.kind # "none" /\ DOMAIN ttm_profit # {}
                     THEN [kind |-> "frame",
                           rows |-> ValuationDaily(analyzer.stock_kline, ttm_profit,
                                        ttm_rev, analyzer.balance_sheet,
                                        analyzer.total_shares)]
                     ELSE [kind |-> "none"]])

\* ------------------------------------------------------ get_all_industries
\* lru_cache(maxsize=1) around a function without arguments: the entry, once
\* set, answers every later call. The provider's directory query raises or
\* returns a directory; the function returns None when it raises.
Directory1 == <<"bank", "liquor">>
Directory2 == <<"liquor">>
DirOutcomes == {"raise", "d1", "d2"}
DirectoryOf(o) == [names |-> IF o = "d1" THEN Directory1 ELSE Directory2]

\* lines 79-87
get_all_industries(cache, o) ==
    IF cache # None THEN [ret |-> cache.value, cache |-> cache, queried |-> FALSE]
    ELSE LET df == IF o = "raise" THEN None ELSE DirectoryOf(o)
         IN  [ret |-> df, cache |-> [value |-> df], queried |-> TRUE]

\* find_stock_industry, lines 94-113: the first industry of the directory
\* whose constituents, when their query does not raise, hold the code
RECURSIVE FirstIndustryWith(_, _)
FirstIndustryWith(names, cons) ==
    IF names = <<>> THEN None
    ELSE IF cons[Head(names)] = "in" THEN [industry |-> Head(names)]
    ELSE FirstIndustryWith(Tail(names), cons)

find_stock_industry(cache, o, cons) ==
    LET g == get_all_industries(cache, o)
    IN  [ret |-> IF g.ret = None THEN None ELSE FirstIndustryWith(g.ret.names, cons),
         cache |-> g.cache, queried |-> g.queried]

\* ------------------------------------------- the secondary's queries issued
\* the queries the secondary tier of fetch_company_info issues once logged
\* in: one per field still unresolved, until one raises
CompanyTier4Issued(stock_code, ci, q1, q2, q3) ==
    LET needName == ci.stock_name = stock_code
        stop1 == needName /\ q1 = "raise"
        needInd == ci.industry = UnknownIndustry
        stop2 == stop1 \/ (needInd /\ q2 = "raise")
        needShares == ci.total_shares = 0
    IN  (IF needName THEN <<"query_stock_basic">> ELSE <<>>)
        \o (IF ~stop1 /\ needInd THEN <<"query_stock_industry">> ELSE <<>>)
        \o (IF ~stop2 /\ needShares THEN <<"query_balance_data">> ELSE <<>>)

\* the query functions the four bs_latest_value calls are given, in order
IndicatorQueryFns ==
    <<"query_dupont_data", "query_dupont_data", "query_profit_data", "query_balance_data">>

\* the bs_latest_value calls made: each one until one raises
RECURSIVE IndicatorsIssued(_, _)
IndicatorsIssued(b, k) ==
    IF k > Len(b) THEN <<>>
    ELSE <<IndicatorQueryFns[k]>> \o (IF b[k].exc THEN <<>> ELSE IndicatorsIssued(b, k + 1))

\* `if _bs_login(): <queries>` of a caller that wants the secondary: what
\* _bs_login did and returned, and the queries issued
BsGate(has, flag, wanted, lo, queries) ==
    IF has /\ wanted
    THEN LET lg == _bs_login(has, flag, lo)
         IN  [asked |-> TRUE, connect |-> lg.ret, called |-> lg.called,
              flag |-> lg.flag, queries |-> IF lg.ret THEN queries ELSE <<>>]
    ELSE [asked |-> FALSE, connect |-> FALSE, called |-> FALSE, flag |-> flag,
          queries |-> <<>>]

\* get_industry_fundamentals_avg, from the point where the primary gave
\* rows or none: the primary's means, the secondary's means for the one
\* constituent, or None (also when a secondary query raises)
IndustryAvgOutcomes == {"rows", "norows"}
IndustryAvg(has, flag, op, lo, b) ==
    IF op = "rows" THEN [val |-> "akshare", flag |-> flag]
    ELSE LET lg == _bs_login(has, flag, lo)
             row == IndicatorsSecondary(NoIndicators, b)
         IN  IF has /\ lg.ret
             THEN [val |-> IF (\E k \in 1..4 : b[k].exc) \/ AllNone(row)
                           THEN NoTag ELSE "baostock",
                   flag |-> lg.flag]
             ELSE [val |-> NoTag, flag |-> IF has THEN lg.flag ELSE flag]

\* ------------------------------------------------ fetch_all_data: the pool
\* the tasks of fetch_tasks
PoolNames ==
    {"financial_abstract", "financial_indicators", "balance_sheet", "income_statement",
     "cash_flow", "kline", "dividend", "northbound"}

\* every key of the record fetch_all_data returns
ResultKeys ==
    PoolNames \cup {"shareholder", "current_valuation", "stock_name", "industry",
                    "total_shares"}

\* the keys whose value is a table or dict, None when absent
TableKeys == (PoolNames \ {"financial_indicators"}) \cup {"shareholder"}

\* the task submitted under `name`, run on the inputs `in`
RunTask(name, has, flag, stock_code, in) ==
    IF name = "financial_indicators"
    THEN fetch_financial_indicators(has, flag, in.o, in.lo,
                                    [i \in 1..4 |-> bs_latest_value(in.qs[i])])
    ELSE LET r == CASE name = "financial_abstract" -> fetch_financial_abstract(in.o)
                    [] name = "balance_sheet" -> fetch_balance_sheet(in.o)
                    [] name = "income_statement" -> fetch_income_statement(in.o)
                    [] name = "cash_flow" -> fetch_cash_flow(in.o)
                    [] name = "kline" -> fetch_kline_data(stock_code, in.o)
                    [] name = "dividend" -> fetch_dividend_data(in.o)
                    [] name = "northbound" -> fetch_northbound_data(in.o)
         IN  [exc |-> r.exc, val |-> r.val, flag |-> flag]

\* mutant: an exception of one task clears what the others returned
CollectClearOnError(results, name, r) ==
    IF r.val = None THEN [k \in DOMAIN results \cup {name} |-> None]
    ELSE (name :> r.val) @@ results

\* the body of the as_completed loop: results[name] = future.result(), or
\* None when the task raised
CollectResult(results, name, r) ==
    (name :> (IF r.exc THEN None ELSE r.val)) @@ results

\* mutant: the secondary's history is never substituted
KlineNoSubstitute(results, bs_kline_fallback) == results

\* the price-history entry after the pool: the prefetched secondary history
\* when the primary's task left None
KlineSubstitute(results, bs_kline_fallback) ==
    IF results["kline"] = None /\ bs_kline_fallback # None
    THEN [results EXCEPT !["kline"] = bs_kline_fallback] ELSE results

\* ------------------------------------------------------------------ bounds
\* most _bs_login / _bs_logout calls in one run of the session
MaxSessionOps == 8
\* attempts for which the upstream's behaviour is given to a category fetcher
MaxAttempts == 2
\* quarters bs_latest_value skips before the deciding one
MaxSkip == 1
\* the quarters bs_latest_value tries
NumQuarters == 6
\* threads that call _bs_login at the same time
NumThreads == 2
\* most calls in one run of the callers of the secondary
MaxBsOps == 3

\* ------------------------------------------------- inputs of the call specs
\* the table fetchers, and the indicator tier of fetch_current_valuation
CatFetchers == (PoolNames \ {"financial_indicators"}) \cup {"valuation_lg"}

\* the quarters of one bs_latest_value call: k skipped quarters, the deciding
\* one, then quarters with a non-zero error_code
QuarterPatterns ==
    {[i \in 1..NumQuarters |->
        IF i <= k THEN "norows" ELSE IF i = k + 1 THEN d ELSE "err"] :
     k \in {0, MaxSkip}, d \in {"raise", "value", "nofield"}}

\* an upstream frame outcome as the indicator endpoint of the valuation sees it
AsLgOutcome(o) ==
    IF o = "ok" THEN [kind |-> "row", pe |-> 15, pb |-> 2]
    ELSE IF o \in {"bare", "empty"} THEN [kind |-> "empty"]
    ELSE [kind |-> o]

\* a category fetcher run against an upstream that behaves as up[k] on its
\* k-th call: the value returned and the number of upstream calls made
CatRun(fn, up) ==
    IF fn = "valuation_lg"
    THEN LET r == retry([k \in 1..Len(up) |->
                           AsCall(fetch_lg_indicator(AsLgOutcome(up[k]),
                                                     [kind |-> "missing"]))],
                        LgTries)
         IN  [val |-> r.val, calls |-> r.calls]
    ELSE [val |-> RunTask(fn, FALSE, FALSE, Code_600519, [o |-> up[1]]).val,
          calls |-> 1]

\* ------------------------------------------- inputs of fetch_all_data's run
FetchRequests == {<<>>, Code_sh600519}
\* a pooled table fetcher's upstream: raises, returns an empty frame, returns rows
FetchFrameOutcomes == {"raise", "bare", "ok"}
FetchInfoOutcomes ==
    {[kind |-> "raise"], [kind |-> "ok", name |-> TRUE, industry |-> TRUE, shares |-> TRUE]}
FetchSpotInfoOutcomes ==
    {[kind |-> "raise"], [kind |-> "row", industry |-> TRUE, mv |-> TRUE]}
FetchQuarterPatterns ==
    {[i \in 1..NumQuarters |-> d] : d \in {"raise", "value"}}
\* the primary answers with values, or raises and the secondary is asked
FetchIndicatorInputs ==
    [o : {"raise"}, lo : {"ok", "raise"},
     qs : {[i \in 1..4 |-> p] : p \in FetchQuarterPatterns}]
    \cup [o : {"vals"}, lo : {"raise"},
          qs : {[i \in 1..4 |-> [j \in 1..NumQuarters |-> "raise"]]}]
FetchLgAttempts ==
    {<<[kind |-> "raise"], [kind |-> "missing"]>>,
     <<[kind |-> "empty"], [kind |-> "missing"]>>,
     <<[kind |-> "row", pe |-> 15, pb |-> 2], [kind |-> "missing"]>>}
FetchSpotOutcomes ==
    {[kind |-> "raise"],
     [kind |-> "row", price |-> 1100, pe |-> 16, pb |-> 3, total_mv |-> 5000,
      circ_mv |-> 4000, turnover |-> 1, volume_ratio |-> 1, change_pct |-> 200]}
FetchBsValuationOutcomes ==
    {[kind |-> "raise"], [kind |-> "row", peTTM |-> 17, pbMRQ |-> 4, close |-> 1040, turn |-> 2]}

PoolInputs(name) ==
    IF name = "financial_indicators" THEN FetchIndicatorInputs
    ELSE IF name = "kline" THEN [o : FetchFrameOutcomes]
    ELSE [o : {"raise", "ok"}]

VARIABLES
    nIn,        \* _normalize_code: the identifier given
    nOut,       \* _normalize_code: its result, None before the call
    hasBaostock,\* _HAS_BAOSTOCK: whether the baostock import succeeded
    bsLoggedIn, \* _BS_LOGGED_IN of data_fetcher
    sOps,       \* session run: calls made so far
    sLogins,    \* session run: bs.login() calls since the last _bs_logout
    sOks,       \* session run: successful bs.login() calls since the last _bs_logout
    sLast,      \* session run: the last call, its flag before, its result
    rTries,     \* retry: the attempt budget
    rSt,        \* retry: the loop's state
    rHist,      \* retry: outcomes of the invocations of the callable so far
    cIn,        \* a fetcher called on its own: the fetcher and its upstream
    cOut,       \* a fetcher called on its own: its result, None before the call
    pc,         \* fetch_all_data: where the request is
    req,        \* fetch_all_data: the identifier given
    stock_code, \* fetch_all_data: the normalised code
    bs_kline_fallback, \* fetch_all_data: the prefetched secondary history
    company_info,      \* fetch_all_data: the profile
    results,    \* fetch_all_data: the result record, key by key
    taskOut,    \* fetch_all_data: per collected task, whether its upstream call
                \* raised, whether the task raised, and what it returned
    kPrimary,   \* fetch_all_data: whether the primary price history raised, was
                \* empty or had rows
    kSecondary, \* fetch_all_data: whether the secondary price history had rows
    thr,        \* concurrent _bs_login: each thread's position and locals
    cv,         \* fetch_current_valuation: current_valuation, None outside a call;
                \* get_all_industries: the entry of its lru_cache
    log,        \* a function run tier by tier: the provider calls issued so far
    icLoggedIn  \* _BS_LOGGED_IN of industry_compare

normVars == <<nIn, nOut>>
sessVars == <<hasBaostock, bsLoggedIn>>
sessLog == <<sOps, sLogins, sOks, sLast>>
retryVars == <<rTries, rSt, rHist>>
callVars == <<cIn, cOut>>
stepVars == <<thr, cv, log, icLoggedIn>>
fetchVars == <<pc, req, stock_code, bs_kline_fallback, company_info, results, taskOut,
               kPrimary, kSecondary>>
vars == <<nIn, nOut, hasBaostock, bsLoggedIn, sOps, sLogins, sOks, sLast,
          rTries, rSt, rHist, cIn, cOut, pc, req, stock_code, bs_kline_fallback,
          company_info, results, taskOut, kPrimary, kSecondary, thr, cv, log,
          icLoggedIn>>

NoCall ==
    [op |-> "none", before |-> FALSE, ret |-> FALSE, called |-> FALSE, out |-> "none"]
NoProfile == [stock_name |-> <<>>, industry |-> UnknownIndustry, total_shares |-> 0]
\* a function with no key yet
EmptyMap == [k \in {} |-> None]

\* values of the variables a specification does not use
NormIdle == nIn = <<>> /\ nOut = None
SessIdle == hasBaostock = FALSE /\ bsLoggedIn = FALSE
SessLogIdle == sOps = 0 /\ sLogins = 0 /\ sOks = 0 /\ sLast = NoCall
RetryIdle == rTries = 0 /\ rSt = RetryStart(0) /\ rHist = <<>>
CallIdle == cIn = None /\ cOut = None
FetchIdle ==
    /\ pc = "off" /\ req = <<>> /\ stock_code = <<>> /\ bs_kline_fallback = None
    /\ company_info = NoProfile /\ results = EmptyMap /\ taskOut = EmptyMap
    /\ kPrimary = "pending" /\ kSecondary = "pending"

StepIdle == thr = <<>> /\ cv = None /\ log = <<>> /\ icLoggedIn = FALSE

\* ------------------------------------------------ SpecNorm: _normalize_code
NormInit ==
    /\ nIn \in CodeInputs /\ nOut = None
    /\ SessIdle /\ SessLogIdle /\ RetryIdle /\ CallIdle /\ FetchIdle /\ StepIdle

NormalizeCall ==
    /\ nOut = None
    /\ nOut' = _normalize_code(nIn)
    /\ UNCHANGED <<stepVars, nIn, sessVars, sessLog, retryVars, callVars, fetchVars>>

NormNext == NormalizeCall

SpecNorm == NormInit /\ [][NormNext]_vars

\* ------------------------------- SpecSession: sequential _bs_login/_bs_logout
SessInit ==
    /\ hasBaostock \in BOOLEAN /\ bsLoggedIn = FALSE
    /\ SessLogIdle /\ NormIdle /\ RetryIdle /\ CallIdle /\ FetchIdle /\ StepIdle

LoginCall ==
    \E out \in LoginOutcomes :
        LET r == _bs_login(hasBaostock, bsLoggedIn, out)
        IN  /\ sOps < MaxSessionOps
            /\ bsLoggedIn' = r.flag
            /\ sOps' = sOps + 1
            /\ sLogins' = sLogins + (IF r.called THEN 1 ELSE 0)
            /\ sOks' = sOks + (IF r.called /\ out = "ok" THEN 1 ELSE 0)
            /\ sLast' = [op |-> "login", before |-> bsLoggedIn, ret |-> r.ret,
                         called |-> r.called,
                         out |-> IF r.called THEN out ELSE "none"]
            /\ UNCHANGED <<stepVars, hasBaostock, normVars, retryVars, callVars, fetchVars>>

LogoutCall ==
    \E out \in LogoutOutcomes :
        LET r == _bs_logout(hasBaostock, bsLoggedIn, out)
        IN  /\ sOps < MaxSessionOps
            /\ bsLoggedIn' = r.flag
            /\ sOps' = sOps + 1
            /\ sLogins' = 0
            /\ sOks' = 0
            /\ sLast' = [op |-> "logout", before |-> bsLoggedIn, ret |-> FALSE,
                         called |-> r.called,
                         out |-> IF r.called THEN out ELSE "none"]
            /\ UNCHANGED <<stepVars, hasBaostock, normVars, retryVars, callVars, fetchVars>>

SessNext == LoginCall \/ LogoutCall

SpecSession == SessInit /\ [][SessNext]_vars

\* ------------------------------------------------------- SpecRetry: retry
RetryInit ==
    /\ rTries \in 0..MaxTries
    /\ rSt = RetryStart(rTries)
    /\ rHist = <<>>
    /\ NormIdle /\ SessIdle /\ SessLogIdle /\ CallIdle /\ FetchIdle /\ StepIdle

RetryAttempt ==
    \E out \in CallOutcomes :
        /\ ~rSt.done
        /\ rSt' = RetryStep(rSt, rTries, out)
        /\ rHist' = Append(rHist, out)
        /\ UNCHANGED <<stepVars, rTries, normVars, sessVars, sessLog, callVars, fetchVars>>

RetryNext == RetryAttempt

SpecRetry == RetryInit /\ [][RetryNext]_vars

\* ------------------------------- SpecConc: _bs_login called by several threads
\* _bs_login has no lock: a thread can be preempted between any two of its
\* statements.  A thread's position: "check" (line 62), "login" (line 65),
\* "set" (lines 66-69, out being what bs.login() did), "ret" (line 70), "done".
Threads == 1..NumThreads

ConcInit ==
    /\ hasBaostock \in BOOLEAN /\ bsLoggedIn = FALSE
    /\ thr = [t \in Threads |-> [pc |-> "check", out |-> "none", ret |-> FALSE]]
    /\ cv = None /\ log = <<>> /\ icLoggedIn = FALSE
    /\ SessLogIdle /\ NormIdle /\ RetryIdle /\ CallIdle /\ FetchIdle

\* if not _HAS_BAOSTOCK or _BS_LOGGED_IN: return _BS_LOGGED_IN
ThreadCheck(t) ==
    /\ thr[t].pc = "check"
    /\ thr' = [thr EXCEPT ![t] = IF ~hasBaostock \/ bsLoggedIn
                                 THEN [@ EXCEPT !.pc = "done", !.ret = bsLoggedIn]
                                 ELSE [@ EXCEPT !.pc = "login"]]
    /\ UNCHANGED <<cv, log, icLoggedIn, sessVars, sessLog, normVars, retryVars, callVars, fetchVars>>

\* lg = bs.login()
ThreadLogin(t) ==
    \E out \in LoginOutcomes :
        /\ thr[t].pc = "login"
        /\ thr' = [thr EXCEPT ![t] = [@ EXCEPT !.pc = "set", !.out = out]]
        /\ sLogins' = sLogins + 1
        /\ sOks' = sOks + (IF out = "ok" THEN 1 ELSE 0)
        /\ UNCHANGED <<cv, log, icLoggedIn, sessVars, sOps, sLast, normVars, retryVars, callVars,
                       fetchVars>>

\* the assignment to the flag: True after error_code '0', False in the
\* except clause, none otherwise
ThreadSet(t) ==
    /\ thr[t].pc = "set"
    /\ bsLoggedIn' = _bs_login(hasBaostock, bsLoggedIn, thr[t].out).flag
    /\ thr' = [thr EXCEPT ![t] = [@ EXCEPT !.pc = "ret"]]
    /\ UNCHANGED <<cv, log, icLoggedIn, hasBaostock, sessLog, normVars, retryVars, callVars,
                   fetchVars>>

\* return _BS_LOGGED_IN
ThreadReturn(t) ==
    /\ thr[t].pc = "ret"
    /\ thr' = [thr EXCEPT ![t] = [@ EXCEPT !.pc = "done", !.ret = bsLoggedIn]]
    /\ UNCHANGED <<cv, log, icLoggedIn, sessVars, sessLog, normVars, retryVars, callVars, fetchVars>>

ConcNext ==
    \E t \in Threads :
        ThreadCheck(t) \/ ThreadLogin(t) \/ ThreadSet(t) \/ ThreadReturn(t)

SpecConc == ConcInit /\ [][ConcNext]_vars

\* ----------------------- SpecBs: the callers of the secondary, one after another
\* what a caller did with the session: the gate's record, and whether its
\* result is the one it gives when the secondary is not importable
BsSiteResult(g, val, valNoBs) ==
    [asked |-> g.asked, connect |-> g.connect, called |-> g.called, flag |-> g.flag,
     queries |-> g.queries, fell |-> (val = valNoBs)]

BsInit ==
    /\ hasBaostock \in BOOLEAN /\ bsLoggedIn = FALSE
    /\ cIn = None /\ cOut = None
    /\ thr = <<>> /\ cv = None /\ log = <<>> /\ icLoggedIn = FALSE
    /\ SessLogIdle /\ NormIdle /\ RetryIdle /\ FetchIdle

\* fetch_company_info(stock_code)
BsCompanyCall ==
    /\ sOps < MaxBsOps
    /\ \E o1 \in InfoOutcomes, o2 \in {"raise", "row"}, o3 \in FetchSpotInfoOutcomes,
          lo \in LoginOutcomes, q1 \in BsInfoOutcomes, q2 \in {"row", "raise"} :
        LET code == Code_600519
            q3 == q1
            c3 == CompanyTier3(CompanyTier2(code, CompanyTier1(code, o1), o2), o3)
            g == BsGate(hasBaostock, bsLoggedIn, CompanyNeedsBs(hasBaostock, code, c3),
                        lo, CompanyTier4Issued(code, c3, q1, q2, q3))
            r == fetch_company_info(hasBaostock, bsLoggedIn, code, o1, o2, o3, lo,
                                    q1, q2, q3)
            r0 == fetch_company_info(FALSE, bsLoggedIn, code, o1, o2, o3, lo, q1, q2, q3)
        IN  /\ cIn' = [site |-> "fetch_company_info", lo |-> lo]
            /\ cOut' = BsSiteResult(g, r.val, r0.val)
            /\ bsLoggedIn' = r.flag
    /\ sOps' = sOps + 1
    /\ UNCHANGED <<stepVars, hasBaostock, sLogins, sOks, sLast, normVars, retryVars,
                   fetchVars>>

\* fetch_financial_indicators(stock_code)
BsIndicatorsCall ==
    /\ sOps < MaxBsOps
    /\ \E oa \in IndicatorOutcomes, lo \in LoginOutcomes,
          qs \in [1..4 -> FetchQuarterPatterns] :
        LET b == [i \in 1..4 |-> bs_latest_value(qs[i])]
            g == BsGate(hasBaostock, bsLoggedIn, AllNone(IndicatorsPrimary(oa)), lo,
                        IndicatorsIssued(b, 1))
            r == fetch_financial_indicators(hasBaostock, bsLoggedIn, oa, lo, b)
            r0 == fetch_financial_indicators(FALSE, bsLoggedIn, oa, lo, b)
        IN  /\ cIn' = [site |-> "fetch_financial_indicators", lo |-> lo]
            /\ cOut' = BsSiteResult(g, r.val, r0.val)
            /\ bsLoggedIn' = r.flag
    /\ sOps' = sOps + 1
    /\ UNCHANGED <<stepVars, hasBaostock, sLogins, sOks, sLast, normVars, retryVars,
                   fetchVars>>

\* fetch_current_valuation(stock_code, None, 0)
BsValuationCall ==
    /\ sOps < MaxBsOps
    /\ \E a \in FetchLgAttempts, os \in FetchSpotOutcomes, lo \in LoginOutcomes,
          qb \in BsValuationOutcomes :
        LET cv0 == ValuationStart(None, "raise")
            cv2 == ValuationSpotTier(ValuationLgTier(cv0, <<a, a>>).val, os).val
            g == BsGate(hasBaostock, bsLoggedIn, BsTierWanted(TRUE, cv2), lo,
                        <<"query_history_k_data_plus">>)
            r == fetch_current_valuation(hasBaostock, bsLoggedIn, None, 0, "raise",
                                         <<a, a>>, os, lo, qb)
            r0 == fetch_current_valuation(FALSE, bsLoggedIn, None, 0, "raise",
                                          <<a, a>>, os, lo, qb)
        IN  /\ cIn' = [site |-> "fetch_current_valuation", lo |-> lo]
            /\ cOut' = BsSiteResult(g, r.val, r0.val)
            /\ bsLoggedIn' = r.flag
    /\ sOps' = sOps + 1
    /\ UNCHANGED <<stepVars, hasBaostock, sLogins, sOks, sLast, normVars, retryVars,
                   fetchVars>>

\* the price-history prefetch of fetch_all_data
BsPrefetchCall ==
    /\ sOps < MaxBsOps
    /\ \E lo \in LoginOutcomes, q \in BsKlineOutcomes :
        LET g == BsGate(hasBaostock, bsLoggedIn, TRUE, lo,
                        <<"query_history_k_data_plus">>)
            r == BsKlinePrefetch(hasBaostock, bsLoggedIn, Code_600519, lo, q)
            r0 == BsKlinePrefetch(FALSE, bsLoggedIn, Code_600519, lo, q)
        IN  /\ cIn' = [site |-> "fetch_all_data", lo |-> lo]
            /\ cOut' = BsSiteResult(g, r.bsk, r0.bsk)
            /\ bsLoggedIn' = r.flag
    /\ sOps' = sOps + 1
    /\ UNCHANGED <<stepVars, hasBaostock, sLogins, sOks, sLast, normVars, retryVars,
                   fetchVars>>

\* get_industry_fundamentals_avg(industry_name), with the flag of its module
BsIndustryCall ==
    /\ sOps < MaxBsOps
    /\ \E op \in IndustryAvgOutcomes, lo \in LoginOutcomes,
          qs \in [1..4 -> FetchQuarterPatterns] :
        LET b == [i \in 1..4 |-> bs_latest_value(qs[i])]
            g == BsGate(hasBaostock, icLoggedIn, op = "norows", lo,
                        IndicatorsIssued(b, 1))
            r == IndustryAvg(hasBaostock, icLoggedIn, op, lo, b)
            r0 == IndustryAvg(FALSE, icLoggedIn, op, lo, b)
        IN  /\ cIn' = [site |-> "get_industry_fundamentals_avg", lo |-> lo]
            /\ cOut' = BsSiteResult(g, r.val, r0.val)
            /\ icLoggedIn' = r.flag
    /\ sOps' = sOps + 1
    /\ UNCHANGED <<thr, cv, log, sessVars, sLogins, sOks, sLast, normVars, retryVars,
                   fetchVars>>

\* _bs_logout()
BsLogoutCall ==
    /\ sOps < MaxBsOps
    /\ \E out \in LogoutOutcomes :
        bsLoggedIn' = _bs_logout(hasBaostock, bsLoggedIn, out).flag
    /\ cIn' = [site |-> "_bs_logout", lo |-> "none"]
    /\ cOut' = None
    /\ sOps' = sOps + 1
    /\ UNCHANGED <<stepVars, hasBaostock, sLogins, sOks, sLast, normVars, retryVars,
                   fetchVars>>

BsNext ==
    \/ BsCompanyCall \/ BsIndicatorsCall \/ BsValuationCall \/ BsPrefetchCall
    \/ BsIndustryCall \/ BsLogoutCall

SpecBs == BsInit /\ [][BsNext]_vars

\* ------------------------- SpecVal: fetch_current_valuation, one tier at a time
\* the price histories passed in: none, one row, two rows
ValKlines ==
    {None} \cup {[closes |-> c] : c \in {<<1000>>, <<1000, 1050>>, <<0, 1050>>,
                                          <<1050, 1000>>}}
ValShares == {0, 3}
ValLgAttempts ==
    {<<e1, e2>> : e1 \in LgOutcomes,
                  e2 \in {[kind |-> "missing"], [kind |-> "raise"],
                          [kind |-> "row", pe |-> 15, pb |-> 2]}}

\* the fields among price, PE and PB a provider row holds a non-zero value of
Gave(price, pe, pb) ==
    (IF price # 0 THEN {"price"} ELSE {}) \cup (IF pe # 0 THEN {"pe_ttm"} ELSE {})
        \cup (IF pb # 0 THEN {"pb"} ELSE {})

\* a tier that was attempted: whether it got a row, and what the row gave
TierEntry(tier, row, gave) == [tier |-> tier, row |-> row, gave |-> gave]

ValInit ==
    /\ hasBaostock \in BOOLEAN /\ bsLoggedIn \in BOOLEAN
    /\ pc = "call" /\ cIn = None /\ cOut = None
    /\ thr = <<>> /\ cv = None /\ log = <<>> /\ icLoggedIn = FALSE
    /\ req = <<>> /\ stock_code = <<>> /\ bs_kline_fallback = None
    /\ company_info = NoProfile /\ results = EmptyMap /\ taskOut = EmptyMap
    /\ kPrimary = "pending" /\ kSecondary = "pending"
    /\ SessLogIdle /\ NormIdle /\ RetryIdle

\* lines 402-434: the fallback price and the record the tiers update
ValStart ==
    /\ pc = "call"
    /\ \E k \in ValKlines, ts \in ValShares, oh \in HistOutcomes :
        /\ cIn' = [stock_kline |-> k, total_shares |-> ts, oh |-> oh]
        /\ cv' = ValuationStart(k, oh)
    /\ pc' = "lg"
    /\ UNCHANGED <<thr, log, icLoggedIn, cOut, sessVars, sessLog, normVars, retryVars,
                   req, stock_code, bs_kline_fallback, company_info, results, taskOut,
                   kPrimary, kSecondary>>

\* lines 436-454: the indicator tier
ValLg ==
    /\ pc = "lg"
    /\ \E a1 \in ValLgAttempts :
         \E a2 \in (IF fetch_lg_indicator(a1[1], a1[2]).exc THEN ValLgAttempts
                     ELSE {a1}) :
           LET last == LgTierRow(<<a1, a2>>)
           IN  /\ cv' = ValuationLgTier(cv, <<a1, a2>>).val
               /\ log' = Append(log, TierEntry("lg_indicator", last # None,
                                    IF last # None THEN Gave(0, last.pe, last.pb)
                                    ELSE {}))
    /\ pc' = "spot"
    /\ UNCHANGED <<thr, icLoggedIn, callVars, sessVars, sessLog, normVars, retryVars,
                   req, stock_code, bs_kline_fallback, company_info, results, taskOut,
                   kPrimary, kSecondary>>

\* lines 456-475: the snapshot tier
ValSpot ==
    /\ pc = "spot"
    /\ \E os \in SpotOutcomes :
        LET row == SpotTierRow(os)
        IN  /\ cv' = ValuationSpotTier(cv, os).val
            /\ log' = IF SpotTierWanted(cv)
                      THEN Append(log, TierEntry("spot_em", row # None,
                                     IF row # None THEN Gave(row.price, row.pe, row.pb)
                                     ELSE {}))
                      ELSE log
    /\ pc' = "bs"
    /\ UNCHANGED <<thr, icLoggedIn, callVars, sessVars, sessLog, normVars, retryVars,
                   req, stock_code, bs_kline_fallback, company_info, results, taskOut,
                   kPrimary, kSecondary>>

\* lines 477-515: the secondary tier
ValBs ==
    /\ pc = "bs"
    /\ \E lo \in LoginOutcomes, qb \in BsValuationOutcomes :
        LET g == BsGate(hasBaostock, bsLoggedIn, BsTierWanted(TRUE, cv), lo,
                        <<"query_history_k_data_plus">>)
        IN  /\ cv' = IF BsTierWanted(hasBaostock, cv) /\ g.connect
                     THEN ValuationBsTier(cv, qb) ELSE cv
            /\ log' = IF g.queries # <<>>
                      THEN Append(log, TierEntry("baostock", qb.kind = "row",
                                     IF qb.kind = "row"
                                     THEN Gave(qb.close, qb.peTTM, qb.pbMRQ) ELSE {}))
                      ELSE log
            /\ bsLoggedIn' = g.flag
            /\ cOut' = [connect |-> g.connect]
    /\ pc' = "derive"
    /\ UNCHANGED <<thr, icLoggedIn, cIn, hasBaostock, sessLog, normVars, retryVars,
                   req, stock_code, bs_kline_fallback, company_info, results, taskOut,
                   kPrimary, kSecondary>>

\* lines 517-524: the derived market value, and the return
ValDerive ==
    /\ pc = "derive"
    /\ cv' = ValuationDerive(cv, cIn.total_shares)
    /\ pc' = "returned"
    /\ UNCHANGED <<thr, log, icLoggedIn, callVars, sessVars, sessLog, normVars,
                   retryVars, req, stock_code, bs_kline_fallback, company_info, results,
                   taskOut, kPrimary, kSecondary>>

ValNext == ValStart \/ ValLg \/ ValSpot \/ ValBs \/ ValDerive

SpecVal == ValInit /\ [][ValNext]_vars

\* ------------------------------ SpecCompany: fetch_company_info, tier by tier
\* a provider call made for the profile
ProfileCall(name) == [tier |-> name]

CompanyInit ==
    /\ hasBaostock \in BOOLEAN /\ bsLoggedIn \in BOOLEAN
    /\ stock_code \in {Code_600519, Code_000001}
    /\ pc = "call" /\ company_info = NoProfile /\ log = <<>>
    /\ thr = <<>> /\ cv = None /\ icLoggedIn = FALSE
    /\ req = <<>> /\ bs_kline_fallback = None /\ results = EmptyMap
    /\ taskOut = EmptyMap /\ kPrimary = "pending" /\ kSecondary = "pending"
    /\ SessLogIdle /\ NormIdle /\ RetryIdle /\ CallIdle

\* lines 84-98: the defaults and the profile endpoint
CompanyStep1 ==
    /\ pc = "call"
    /\ \E o1 \in InfoOutcomes : company_info' = CompanyTier1(stock_code, o1)
    /\ log' = Append(log, ProfileCall("stock_individual_info_em"))
    /\ pc' = "tier2"
    /\ UNCHANGED <<thr, cv, icLoggedIn, stock_code, req, bs_kline_fallback, results,
                   taskOut, kPrimary, kSecondary, sessVars, sessLog, normVars, retryVars,
                   callVars>>

\* lines 100-108: the code/name list
CompanyStep2 ==
    /\ pc = "tier2"
    /\ \E o2 \in NameListOutcomes :
        company_info' = CompanyTier2(stock_code, company_info, o2)
    /\ log' = IF CompanyTier2Wanted(stock_code, company_info)
              THEN Append(log, ProfileCall("stock_info_a_code_name")) ELSE log
    /\ pc' = "tier3"
    /\ UNCHANGED <<thr, cv, icLoggedIn, stock_code, req, bs_kline_fallback, results,
                   taskOut, kPrimary, kSecondary, sessVars, sessLog, normVars, retryVars,
                   callVars>>

\* lines 110-125: the market snapshot
CompanyStep3 ==
    /\ pc = "tier3"
    /\ \E o3 \in SpotInfoOutcomes : company_info' = CompanyTier3(company_info, o3)
    /\ log' = IF CompanyTier3Wanted(company_info)
              THEN Append(log, ProfileCall("stock_zh_a_spot_em")) ELSE log
    /\ pc' = "tier4"
    /\ UNCHANGED <<thr, cv, icLoggedIn, stock_code, req, bs_kline_fallback, results,
                   taskOut, kPrimary, kSecondary, sessVars, sessLog, normVars, retryVars,
                   callVars>>

\* lines 127-160: the secondary, and the return
CompanyStep4 ==
    /\ pc = "tier4"
    /\ \E lo \in LoginOutcomes, q1 \in BsInfoOutcomes, q2 \in BsInfoOutcomes,
          q3 \in BsInfoOutcomes :
        LET issued == CompanyTier4Issued(stock_code, company_info, q1, q2, q3)
            g == BsGate(hasBaostock, bsLoggedIn,
                        CompanyNeedsBs(TRUE, stock_code, company_info), lo, issued)
        IN  /\ company_info' =
                  IF g.connect
                  THEN CompanyTier4Queries(stock_code, company_info, q1, q2, q3)
                  ELSE company_info
            /\ log' = log \o (IF g.asked THEN <<ProfileCall("_bs_login")>> ELSE <<>>)
                          \o [i \in 1..Len(g.queries) |-> ProfileCall(g.queries[i])]
            /\ bsLoggedIn' = g.flag
    /\ pc' = "returned"
    /\ UNCHANGED <<thr, cv, icLoggedIn, stock_code, req, bs_kline_fallback, results,
                   taskOut, kPrimary, kSecondary, hasBaostock, sessLog, normVars,
                   retryVars, callVars>>

CompanyNext == CompanyStep1 \/ CompanyStep2 \/ CompanyStep3 \/ CompanyStep4

SpecCompany == CompanyInit /\ [][CompanyNext]_vars

\* ----------------------------- SpecQuarter: calculate_single_quarter_data
QYears == {2023, 2024}
QMonths == {3, 6, 9, 12}
QValues == {0, 100}
SampleAssets == 900
Periods == QYears \X QMonths
StatementRow(p, v) == [year |-> p[1], month |-> p[2], rev |-> v, assets |-> SampleAssets]
\* the cumulative revenue of one year: 100, 250, 400, 600
ExampleStatement ==
    {StatementRow(<<2023, 3>>, 100), StatementRow(<<2023, 6>>, 250),
     StatementRow(<<2023, 9>>, 400), StatementRow(<<2023, 12>>, 600)}
\* no frame, or a frame with any set of periods and any values
Statements ==
    {[kind |-> "none"]} \cup
    {[kind |-> "frame", rows |-> rs] :
        rs \in {ExampleStatement} \cup
               UNION {{{StatementRow(p, v[p]) : p \in P} : v \in [P -> QValues]} :
                      P \in SUBSET Periods}}

QuarterInit ==
    /\ cIn \in Statements /\ cOut = None
    /\ SessIdle /\ SessLogIdle /\ NormIdle /\ RetryIdle /\ FetchIdle /\ StepIdle

QuarterCall ==
    /\ cOut = None
    /\ cOut' = calculate_single_quarter_data(cIn)
    /\ UNCHANGED <<cIn, stepVars, sessVars, sessLog, normVars, retryVars, fetchVars>>

QuarterNext == QuarterCall

SpecQuarter == QuarterInit /\ [][QuarterNext]_vars

\* ------------------------------------------- SpecTtm: calculate_ttm_series
TYears == {2023, 2024}
TMonths == {6, 12}
TValues == {0, 70, 150, NaN, Placeholder}
TtmRow(p, v) == [year |-> p[1], month |-> p[2], val |-> v]
\* cumulative 70 for June 2023, 150 for December 2023, 80 for June 2024
ExampleTtmRows == {TtmRow(<<2023, 6>>, 70), TtmRow(<<2023, 12>>, 150),
                   TtmRow(<<2024, 6>>, 80)}
TtmFrames ==
    {[kind |-> "none"]} \cup
    [kind : {"frame"}, hascol : BOOLEAN,
     rows : {ExampleTtmRows} \cup
            UNION {{{TtmRow(p, v[p]) : p \in P} : v \in [P -> TValues]} :
                   P \in SUBSET (TYears \X TMonths)}]

TtmInit ==
    /\ cIn \in TtmFrames /\ cOut = None
    /\ SessIdle /\ SessLogIdle /\ NormIdle /\ RetryIdle /\ FetchIdle /\ StepIdle

TtmCall ==
    /\ cOut = None
    /\ cOut' = [series |-> calculate_ttm_series(cIn)]
    /\ UNCHANGED <<cIn, stepVars, sessVars, sessLog, normVars, retryVars, fetchVars>>

TtmNext == TtmCall

SpecTtm == TtmInit /\ [][TtmNext]_vars

\* --------------------------------------- SpecAdv: prepare_advanced_data
\* cumulative profit 70 for June 2023, decProfit for December 2023 and 80 for
\* June 2024; revenue is ten times the example's profit
AdvRow(year, month, profit, rev) ==
    [year |-> year, month |-> month, profit |-> profit, rev |-> rev, ocf |-> profit]
AdvRows(decProfit) ==
    {AdvRow(2023, 6, 70, 700), AdvRow(2023, 12, decProfit, 1500),
     AdvRow(2024, 6, 80, 800)}
AdvStatements ==
    {[kind |-> "none"]} \cup
    [kind : {"frame"}, cols : {{"rev", "profit", "ocf"}, {"rev", "ocf"}},
     rows : {AdvRows(150), AdvRows(0), {AdvRow(2024, 6, 80, 800)}}]
AdvAbstracts ==
    {[kind |-> "none"],
     [kind |-> "frame", cols |-> {"rev"}, rows |-> AdvRows(150)]}
AdvCashFlows ==
    {[kind |-> "none"],
     [kind |-> "frame", cols |-> {"ocf"}, rows |-> AdvRows(150)]}
\* 2023-12-31 is the end date of the December 2023 period
AdvReportDay == 20231231
AdvDays == {20231229, AdvReportDay, 20240102, 20240701}
AdvCloses == {1000, NaN}
AdvEquities == {500, 0, Placeholder}
AdvBalanceSheets ==
    {[kind |-> "none"], [kind |-> "frame", haseq |-> FALSE, rows |-> {}]} \cup
    {[kind |-> "frame", haseq |-> TRUE,
      rows |-> {[date |-> AdvReportDay, equity |-> e]}] : e \in AdvEquities}
AdvKlines ==
    {[kind |-> "none"]} \cup
    UNION {{[kind |-> "frame", bars |-> {[date |-> d, close |-> c[d]] : d \in D}] :
               c \in [D -> AdvCloses]} : D \in SUBSET AdvDays}
AdvShares == {0, 3}
Analyzers ==
    [income_statement : AdvStatements, cash_flow_data : AdvCashFlows,
     balance_sheet : AdvBalanceSheets, financial_data : AdvAbstracts,
     stock_kline : AdvKlines, total_shares : AdvShares]

AdvInit ==
    /\ cIn \in Analyzers /\ cOut = None
    /\ SessIdle /\ SessLogIdle /\ NormIdle /\ RetryIdle /\ FetchIdle /\ StepIdle

AdvCall ==
    /\ cOut = None
    /\ cOut' = prepare_advanced_data(cIn)
    /\ UNCHANGED <<cIn, stepVars, sessVars, sessLog, normVars, retryVars, fetchVars>>

AdvNext == AdvCall

SpecAdv == AdvInit /\ [][AdvNext]_vars

\* ------------------------------------- SpecHolders: fetch_shareholder_data
HolderNames == {"A", "B"}
HolderCounts == {3, 5}
HolderRows == [name : HolderNames, shares : HolderCounts]
Rosters ==
    {[kind |-> "raise"], [kind |-> "none"], [kind |-> "frame", rows |-> <<>>]} \cup
    {[kind |-> "frame", rows |-> <<r>>] : r \in HolderRows} \cup
    {[kind |-> "frame", rows |-> <<r, q>>] : r \in HolderRows, q \in HolderRows}
\* the report dates of the financial abstract, oldest first
HolderAbstracts ==
    {None, [dates |-> <<20231231>>], [dates |-> <<20231231, 20231231>>],
     [dates |-> <<20231231, 20240331>>]}
HolderCalls == [fa : HolderAbstracts, df_latest : Rosters, df_prev : Rosters]

HoldersInit ==
    /\ cIn \in HolderCalls /\ cOut = None
    /\ SessIdle /\ SessLogIdle /\ NormIdle /\ RetryIdle /\ FetchIdle /\ StepIdle

HoldersCall ==
    /\ cOut = None
    /\ cOut' = Catch(ShareholderRoster(cIn.fa, cIn.df_latest, cIn.df_prev), None)
    /\ UNCHANGED <<cIn, stepVars, sessVars, sessLog, normVars, retryVars, fetchVars>>

HoldersNext == HoldersCall

SpecHolders == HoldersInit /\ [][HoldersNext]_vars

\* ------------------ SpecModules: the session as seen from the two modules
\* data_fetcher and industry_compare each keep a _BS_LOGGED_IN of their own
\* and call the one provider session. log holds the provider's login and
\* logout calls with the session's state before and after each; a login
\* that is refused leaves the session as it was, and a logout that raises
\* may or may not have closed it.
MaxModuleOps == 4
SessionUp == log # <<>> /\ log[Len(log)].after
ProviderCall(call, by, out, after) ==
    [call |-> call, by |-> by, out |-> out, before |-> SessionUp, after |-> after]

ModulesInit ==
    /\ hasBaostock \in BOOLEAN /\ bsLoggedIn = FALSE /\ icLoggedIn = FALSE
    /\ log = <<>> /\ thr = <<>> /\ cv = None
    /\ SessLogIdle /\ NormIdle /\ RetryIdle /\ CallIdle /\ FetchIdle

\* data_fetcher._bs_login()
DfLogin ==
    /\ sOps < MaxModuleOps
    /\ \E out \in LoginOutcomes :
        LET r == _bs_login(hasBaostock, bsLoggedIn, out)
        IN  /\ bsLoggedIn' = r.flag
            /\ log' = IF r.called
                      THEN Append(log, ProviderCall("login", "data_fetcher", out,
                                                    out = "ok" \/ SessionUp))
                      ELSE log
    /\ sOps' = sOps + 1
    /\ UNCHANGED <<hasBaostock, icLoggedIn, thr, cv, sLogins, sOks, sLast, normVars,
                   retryVars, callVars, fetchVars>>

\* data_fetcher._bs_logout()
DfLogout ==
    /\ sOps < MaxModuleOps
    /\ \E out \in LogoutOutcomes, closed \in BOOLEAN :
        LET r == _bs_logout(hasBaostock, bsLoggedIn, out)
        IN  /\ out = "ok" => closed
            /\ bsLoggedIn' = r.flag
            /\ log' = IF r.called
                      THEN Append(log, ProviderCall("logout", "data_fetcher", out,
                                                    SessionUp /\ ~closed))
                      ELSE log
    /\ sOps' = sOps + 1
    /\ UNCHANGED <<hasBaostock, icLoggedIn, thr, cv, sLogins, sOks, sLast, normVars,
                   retryVars, callVars, fetchVars>>

\* industry_compare._bs_login()
IcLogin ==
    /\ sOps < MaxModuleOps
    /\ \E out \in LoginOutcomes :
        LET r == _bs_login(hasBaostock, icLoggedIn, out)
        IN  /\ icLoggedIn' = r.flag
            /\ log' = IF r.called
                      THEN Append(log, ProviderCall("login", "industry_compare", out,
                                                    out = "ok" \/ SessionUp))
                      ELSE log
    /\ sOps' = sOps + 1
    /\ UNCHANGED <<sessVars, thr, cv, sLogins, sOks, sLast, normVars, retryVars,
                   callVars, fetchVars>>

ModulesNext == DfLogin \/ DfLogout \/ IcLogin

SpecModules == ModulesInit /\ [][ModulesNext]_vars

\* ------------------------- SpecPool: the executor block of fetch_all_data
\* thr holds the future of each submitted task: queued, running on a worker,
\* or finished with a value or with an exception. The number of workers
\* (MAX_WORKERS, from a config module that is not in the repository's source
\* tree) is an input; the tasks are the first NumPoolTasks of fetch_tasks.
NumPoolTasks == 3
MaxWorkers == 2
PoolOrder ==
    <<"financial_abstract", "financial_indicators", "balance_sheet", "income_statement",
      "cash_flow", "kline", "dividend", "northbound">>
Dispatched == {PoolOrder[i] : i \in 1..NumPoolTasks}
Finished(n) == n \in DOMAIN thr /\ thr[n] \in {"returned", "raised"}
RunningTasks == {n \in DOMAIN thr : thr[n] = "running"}
TableValue == [kind |-> "table"]

PoolInit ==
    /\ cIn \in [workers : 1..MaxWorkers] /\ cOut = None
    /\ pc = "submit" /\ thr = <<>> /\ results = EmptyMap
    /\ req = <<>> /\ stock_code = <<>> /\ bs_kline_fallback = None
    /\ company_info = NoProfile /\ taskOut = EmptyMap
    /\ kPrimary = "pending" /\ kSecondary = "pending"
    /\ cv = None /\ log = <<>> /\ icLoggedIn = FALSE
    /\ SessIdle /\ SessLogIdle /\ NormIdle /\ RetryIdle

\* line 590: every task of fetch_tasks is submitted
PoolSubmit ==
    /\ pc = "submit"
    /\ thr' = [n \in Dispatched |-> "queued"]
    /\ pc' = "pool"
    /\ UNCHANGED <<cv, log, icLoggedIn, callVars, req, stock_code, bs_kline_fallback,
                   company_info, results, taskOut, kPrimary, kSecondary, sessVars,
                   sessLog, normVars, retryVars>>

\* a free worker takes a queued task
PoolStart(n) ==
    /\ n \in DOMAIN thr /\ thr[n] = "queued"
    /\ Cardinality(RunningTasks) < cIn.workers
    /\ thr' = [thr EXCEPT ![n] = "running"]
    /\ UNCHANGED <<cv, log, icLoggedIn, callVars, fetchVars, sessVars, sessLog, normVars,
                   retryVars>>

\* the fetcher of a running task ends: it returns, or it raises
PoolFinish(n) ==
    /\ n \in DOMAIN thr /\ thr[n] = "running"
    /\ \E how \in {"returned", "raised"} : thr' = [thr EXCEPT ![n] = how]
    /\ UNCHANGED <<cv, log, icLoggedIn, callVars, fetchVars, sessVars, sessLog, normVars,
                   retryVars>>

\* lines 592-598: as_completed yields a finished future, and its result, or
\* None when it holds an exception, is stored under the task's name
PoolCollect(n) ==
    /\ pc = "pool" /\ Finished(n) /\ n \notin DOMAIN results
    /\ results' = (n :> IF thr[n] = "returned" THEN TableValue ELSE None) @@ results
    /\ UNCHANGED <<stepVars, callVars, pc, req, stock_code, bs_kline_fallback,
                   company_info, taskOut, kPrimary, kSecondary, sessVars, sessLog,
                   normVars, retryVars>>

\* the loop ends when every future has been yielded; the with-block then
\* shuts the executor down, waiting for its workers
PoolExitEarly ==
    /\ pc = "pool" /\ DOMAIN results # {}
    /\ pc' = "joined"
    /\ UNCHANGED <<stepVars, callVars, req, stock_code, bs_kline_fallback, company_info,
                   results, taskOut, kPrimary, kSecondary, sessVars, sessLog, normVars,
                   retryVars>>
PoolExit ==
    /\ pc = "pool" /\ DOMAIN results = DOMAIN thr
    /\ pc' = "joined"
    /\ UNCHANGED <<stepVars, callVars, req, stock_code, bs_kline_fallback, company_info,
                   results, taskOut, kPrimary, kSecondary, sessVars, sessLog, normVars,
                   retryVars>>

\* lines 601-633: the roster, the cross-category fallbacks and the valuation,
\* each a call that ends, then the return
PoolReturn ==
    /\ pc = "joined"
    /\ pc' = "done"
    /\ cOut' = results
    /\ UNCHANGED <<stepVars, cIn, req, stock_code, bs_kline_fallback, company_info,
                   results, taskOut, kPrimary, kSecondary, sessVars, sessLog, normVars,
                   retryVars>>

PoolNext ==
    \/ PoolSubmit \/ PoolExit \/ PoolReturn
    \/ \E n \in Dispatched : PoolStart(n) \/ PoolFinish(n) \/ PoolCollect(n)

\* every upstream call eventually returns or fails, and the threads are
\* scheduled: a step that can be taken is eventually taken
SpecPool == PoolInit /\ [][PoolNext]_vars /\ WF_vars(PoolNext)

\* ------------- SpecQuarterU: calculate_single_quarter_data, unknown cells
\* one year of a statement whose cumulative values may be NaN or "--"
UValues == {0, 100, NaN, Placeholder}
UStatements ==
    {[kind |-> "none"]} \cup
    {[kind |-> "frame", rows |-> rs] :
        rs \in UNION {{{StatementRow(<<2023, m>>, v[m]) : m \in P} : v \in [P -> UValues]} :
                      P \in SUBSET QMonths}}

QuarterUInit ==
    /\ cIn \in UStatements /\ cOut = None
    /\ SessIdle /\ SessLogIdle /\ NormIdle /\ RetryIdle /\ FetchIdle /\ StepIdle

QuarterUNext == QuarterCall

SpecQuarterU == QuarterUInit /\ [][QuarterUNext]_vars

\* ------------------------------- SpecDir: the industry directory's cache
\* cv holds the entry of the lru_cache of get_all_industries, None while it
\* is empty; log holds the outcomes of the directory queries issued.
MaxDirCalls == 4
ConsOutcomes == {"raise", "in", "out"}

DirInit ==
    /\ cv = None /\ log = <<>> /\ thr = <<>> /\ icLoggedIn = FALSE
    /\ cIn = None /\ cOut = None
    /\ SessIdle /\ SessLogIdle /\ NormIdle /\ RetryIdle /\ FetchIdle

\* get_all_industries()
DirectoryCall ==
    /\ sOps < MaxDirCalls
    /\ \E o \in DirOutcomes :
        LET r == get_all_industries(cv, o)
        IN  /\ cv' = r.cache
            /\ log' = IF r.queried THEN Append(log, o) ELSE log
            /\ cIn' = [fn |-> "get_all_industries"]
            /\ cOut' = [ret |-> r.ret]
    /\ sOps' = sOps + 1
    /\ UNCHANGED <<thr, icLoggedIn, sessVars, sLogins, sOks, sLast, normVars, retryVars,
                   fetchVars>>

\* find_stock_industry(stock_code)
FindIndustryCall ==
    /\ sOps < MaxDirCalls
    /\ \E o \in DirOutcomes, cons \in [{"bank", "liquor"} -> ConsOutcomes] :
        LET r == find_stock_industry(cv, o, cons)
        IN  /\ cv' = r.cache
            /\ log' = IF r.queried THEN Append(log, o) ELSE log
            /\ cIn' = [fn |-> "find_stock_industry", cons |-> cons]
            /\ cOut' = [ret |-> r.ret]
    /\ sOps' = sOps + 1
    /\ UNCHANGED <<thr, icLoggedIn, sessVars, sLogins, sOks, sLast, normVars, retryVars,
                   fetchVars>>

DirNext == DirectoryCall \/ FindIndustryCall

SpecDir == DirInit /\ [][DirNext]_vars

\* --------------------------------- SpecIdem: _normalize_code applied twice
\* the inputs of SpecNorm, and strings that carry two venue prefixes before
\* up to MaxTail digits
MaxTail == 4
TwoPrefixCodes ==
    {VenuePrefixes[i] \o VenuePrefixes[j] \o d :
        i \in DOMAIN VenuePrefixes, j \in DOMAIN VenuePrefixes,
        d \in SeqsUpTo(SomeDigits, MaxTail)}

IdemInit ==
    /\ nIn \in CodeInputs \cup TwoPrefixCodes /\ nOut = None
    /\ SessIdle /\ SessLogIdle /\ RetryIdle /\ CallIdle /\ FetchIdle /\ StepIdle

\* _normalize_code(_normalize_code(x)), the second call
NormalizeAgain ==
    /\ nOut # None /\ cOut = None
    /\ cOut' = _normalize_code(nOut)
    /\ UNCHANGED <<stepVars, nIn, nOut, cIn, sessVars, sessLog, retryVars, fetchVars>>

IdemNext == NormalizeCall \/ NormalizeAgain

SpecIdem == IdemInit /\ [][IdemNext]_vars

\* --------------------------------- SpecCat: one category fetcher on its own
CatInit ==
    /\ cIn \in [fn : CatFetchers, up : [1..MaxAttempts -> FrameOutcomes]]
    /\ cOut = None
    /\ NormIdle /\ SessIdle /\ SessLogIdle /\ RetryIdle /\ FetchIdle /\ StepIdle

CatCall ==
    /\ cOut = None
    /\ cOut' = CatRun(cIn.fn, cIn.up)
    /\ UNCHANGED <<stepVars, cIn, normVars, sessVars, sessLog, retryVars, fetchVars>>

CatNext == CatCall

SpecCat == CatInit /\ [][CatNext]_vars

\* ----------------------------------- SpecInd: fetch_financial_indicators
IndInit ==
    /\ hasBaostock \in BOOLEAN
    /\ bsLoggedIn \in (IF hasBaostock THEN BOOLEAN ELSE {FALSE})
    /\ cIn \in [fn : {"financial_indicators"}, flag : {bsLoggedIn},
                o : IndicatorOutcomes, lo : LoginOutcomes,
                qs : [1..4 -> QuarterPatterns]]
    /\ cOut = None
    /\ NormIdle /\ SessLogIdle /\ RetryIdle /\ FetchIdle /\ StepIdle

IndCall ==
    /\ cOut = None
    /\ LET r == RunTask(cIn.fn, hasBaostock, bsLoggedIn, Code_600519, cIn)
       IN  cOut' = r.val /\ bsLoggedIn' = r.flag
    /\ UNCHANGED <<stepVars, cIn, hasBaostock, normVars, sessLog, retryVars, fetchVars>>

IndNext == IndCall

SpecInd == IndInit /\ [][IndNext]_vars

\* ------------------------------------------------ SpecFetch: fetch_all_data
FetchInit ==
    /\ req \in FetchRequests
    /\ hasBaostock \in BOOLEAN /\ bsLoggedIn = FALSE
    /\ pc = "called" /\ stock_code = <<>> /\ bs_kline_fallback = None
    /\ company_info = NoProfile /\ results = EmptyMap /\ taskOut = EmptyMap
    /\ kPrimary = "pending" /\ kSecondary = "pending"
    /\ NormIdle /\ SessLogIdle /\ RetryIdle /\ CallIdle /\ StepIdle

\* stock_code = _normalize_code(stock_code)
NormalizeThenPool ==
    /\ pc = "called"
    /\ stock_code' = _normalize_code(req)
    /\ pc' = "company"
    /\ UNCHANGED <<stepVars, req, bs_kline_fallback, company_info, results, taskOut, kPrimary,
                   kSecondary, sessVars, normVars, sessLog, retryVars, callVars>>
Normalize ==
    /\ pc = "called"
    /\ stock_code' = _normalize_code(req)
    /\ pc' = "prefetch"
    /\ UNCHANGED <<stepVars, req, bs_kline_fallback, company_info, results, taskOut, kPrimary,
                   kSecondary, sessVars, normVars, sessLog, retryVars, callVars>>

\* the secondary's price history, fetched first and kept aside
Prefetch ==
    /\ pc = "prefetch"
    /\ \E lo \in LoginOutcomes, q \in BsKlineOutcomes :
           LET r == BsKlinePrefetch(hasBaostock, bsLoggedIn, stock_code, lo, q)
           IN  /\ bsLoggedIn' = r.flag
               /\ bs_kline_fallback' = r.bsk
               /\ kSecondary' = IF hasBaostock /\ (bsLoggedIn \/ lo = "ok") /\ q = "rows"
                                THEN "rows" ELSE "failed"
               /\ pc' = "company"
               /\ UNCHANGED <<stepVars, req, stock_code, company_info, results, taskOut, kPrimary,
                              hasBaostock, normVars, sessLog, retryVars, callVars>>

\* company_info = fetch_company_info(stock_code)
CompanyInfo ==
    /\ pc = "company"
    /\ \E o1 \in FetchInfoOutcomes, lo \in {"ok", "raise"} :
           LET r == fetch_company_info(hasBaostock, bsLoggedIn, stock_code, o1, "raise",
                                       [kind |-> "raise"], lo, "raise", "raise", "raise")
           IN  /\ bsLoggedIn' = r.flag
               /\ company_info' = IF r.exc THEN company_info ELSE r.val
               /\ pc' = IF r.exc THEN "raised" ELSE "pool"
               /\ UNCHANGED <<stepVars, req, stock_code, bs_kline_fallback, results, taskOut, kPrimary,
                              kSecondary, hasBaostock, normVars, sessLog, retryVars,
                              callVars>>

\* one iteration of the as_completed loop: some task that is not collected
\* yet has completed, and its result is stored under its name
Collect ==
    /\ pc = "pool"
    /\ \E name \in PoolNames \ DOMAIN results :
           \E in \in PoolInputs(name) :
               LET r == RunTask(name, hasBaostock, bsLoggedIn, stock_code, in)
               IN  /\ results' = CollectResult(results, name, r)
                   /\ taskOut' = (name :> [raised |-> in.o = "raise", exc |-> r.exc,
                                            val |-> r.val]) @@ taskOut
                   /\ bsLoggedIn' = r.flag
                   /\ kPrimary' = IF name # "kline" THEN kPrimary
                                  ELSE IF in.o = "ok" THEN "rows"
                                  ELSE IF in.o = "raise" THEN "raised" ELSE "empty"
                   /\ UNCHANGED <<stepVars, pc, req, stock_code, bs_kline_fallback, company_info,
                                  kSecondary, hasBaostock, normVars, sessLog, retryVars,
                                  callVars>>

\* the loop ends and the executor's with-block is left when every task has
\* been collected
PoolJoinEarly ==
    /\ pc = "pool"
    /\ {"financial_abstract", "kline"} \subseteq DOMAIN results
    /\ pc' = "joined"
    /\ UNCHANGED <<stepVars, req, stock_code, bs_kline_fallback, company_info, results, taskOut,
                   kPrimary, kSecondary, sessVars, normVars, sessLog, retryVars, callVars>>
PoolJoin ==
    /\ pc = "pool"
    /\ DOMAIN results = PoolNames
    /\ pc' = "joined"
    /\ UNCHANGED <<stepVars, req, stock_code, bs_kline_fallback, company_info, results, taskOut,
                   kPrimary, kSecondary, sessVars, normVars, sessLog, retryVars, callVars>>

\* results['shareholder']
Shareholder ==
    /\ pc = "joined"
    /\ \E oL \in RosterOutcomes, oP \in {"raise", "ok"} :
           LET r == IF results["financial_abstract"] # None
                    THEN fetch_shareholder_data(results["financial_abstract"], oL, oP)
                    ELSE Ret(None)
           IN  /\ results' = IF r.exc THEN results ELSE ("shareholder" :> r.val) @@ results
               /\ pc' = IF r.exc THEN "raised" ELSE "crossfill"
               /\ UNCHANGED <<stepVars, req, stock_code, bs_kline_fallback, company_info, taskOut,
                              kPrimary, kSecondary, sessVars, normVars, sessLog, retryVars,
                              callVars>>

\* the cross-category fallbacks: the secondary price history, the share
\* count from the financial abstract, then results.update(company_info)
CrossFill ==
    LET ci == [company_info EXCEPT
                 !.total_shares = SharesFromAbstract(@, results["financial_abstract"])]
    IN  /\ pc = "crossfill"
        /\ company_info' = ci
        /\ results' = ("stock_name" :> ci.stock_name) @@ ("industry" :> ci.industry)
                      @@ ("total_shares" :> ci.total_shares)
                      @@ KlineSubstitute(results, bs_kline_fallback)
        /\ pc' = "valuation"
        /\ UNCHANGED <<stepVars, req, stock_code, bs_kline_fallback, taskOut, kPrimary, kSecondary,
                       sessVars, normVars, sessLog, retryVars, callVars>>

\* results['current_valuation'], and the return
Valuation ==
    /\ pc = "valuation"
    /\ \E oh \in (IF results["kline"] = None THEN {"raise", "ok"} ELSE {"none"}),
          a1 \in FetchLgAttempts, os \in FetchSpotOutcomes,
          lo \in (IF hasBaostock /\ ~bsLoggedIn THEN {"ok", "raise"} ELSE {"ok"}),
          qb \in FetchBsValuationOutcomes :
         \E a2 \in (IF a1[1].kind = "raise" THEN FetchLgAttempts ELSE {a1}) :
           LET r == fetch_current_valuation(hasBaostock, bsLoggedIn, results["kline"],
                                            company_info.total_shares, oh, <<a1, a2>>,
                                            os, lo, qb)
           IN  /\ bsLoggedIn' = r.flag
               /\ results' = IF r.exc THEN results
                             ELSE ("current_valuation" :> r.val) @@ results
               /\ pc' = IF r.exc THEN "raised" ELSE "done"
               /\ UNCHANGED <<stepVars, req, stock_code, bs_kline_fallback, company_info, taskOut,
                              kPrimary, kSecondary, hasBaostock, normVars, sessLog,
                              retryVars, callVars>>

FetchNext ==
    \/ Normalize \/ Prefetch \/ CompanyInfo \/ Collect \/ PoolJoin
    \/ Shareholder \/ CrossFill \/ Valuation

SpecFetch == FetchInit /\ [][FetchNext]_vars

\* ==================================================================== claims
AfterCrossFill == pc \in {"valuation", "done"}

\* C1: whatever upstream calls raise or return empty, fetch_all_data never
\* propagates an exception, and the record it returns has every category key.
C1_NeverRaisesAllKeys ==
    /\ pc # "raised"
    /\ pc = "done" => DOMAIN results = ResultKeys

\* C1 witness: a record is returned although every table provider failed.
C1_Witness ==
    /\ pc = "done"
    /\ \A k \in TableKeys : results[k] = None
    /\ \A k \in PoolNames \ {"kline"} : taskOut[k].raised
    /\ results["total_shares"] = 0

\* C2: in the joining loop a task whose fetch raised is recorded as None and
\* every entry is exactly what its own fetcher returned, in whatever order
\* the tasks complete (the price history until its later substitution).
C2_Isolation ==
    \A name \in DOMAIN taskOut :
        LET own == IF taskOut[name].exc THEN None ELSE taskOut[name].val
        IN  /\ (taskOut[name].raised /\ name # "financial_indicators") => own = None
            /\ (name # "kline" \/ ~AfterCrossFill) => results[name] = own
            /\ (name = "kline" /\ AfterCrossFill) =>
                   results[name] \in {own, bs_kline_fallback}

\* C2 witness: the balance sheet's fetch raised and is None while the income
\* statement and the cash flow hold what their fetchers returned.
C2_Witness ==
    /\ pc = "done"
    /\ taskOut["balance_sheet"].raised /\ results["balance_sheet"] = None
    /\ ~taskOut["income_statement"].raised
    /\ results["income_statement"] = fetch_income_statement("ok").val
    /\ results["cash_flow"] = fetch_cash_flow("ok").val

\* C3 (as the spec states it): for an empty identifier fetch_all_data fetches
\* nothing and returns no record.
C3_EmptyIdentifierAborts ==
    req = <<>> => (DOMAIN taskOut = {} /\ pc # "done")

\* C4 (as the spec states it): the result of _normalize_code is always
\* exactly six digits.
C4_AlwaysSixDigits ==
    nOut # None => (Len(nOut) = CodeWidth /\ IsDigits(nOut))

\* C5: after the substitution the price history is the primary's whenever
\* the primary had rows; it is the secondary's, under the primary's column
\* names and queried by the secondary's code, exactly when the primary raised
\* or was empty and the secondary had rows; it is None only when both failed.
C5_KlineFallback ==
    AfterCrossFill =>
        /\ kPrimary = "rows" => results["kline"] = AkKline(stock_code)
        /\ (kPrimary \in {"raised", "empty"} /\ kSecondary = "rows")
               <=> (results["kline"] # None /\ results["kline"].src = "baostock")
        /\ (results["kline"] # None /\ results["kline"].src = "baostock") =>
               /\ results["kline"].cols = AkKlineCols
               /\ results["kline"].code = _to_bs_code(stock_code)
               /\ results["kline"].closes = SampleBsCloses
        /\ results["kline"] = None
               <=> (kPrimary \in {"raised", "empty"} /\ kSecondary = "failed")

\* C5 witness: the primary returned an empty history, the secondary had rows,
\* and the record returned carries the secondary's history.
C5_Witness ==
    /\ pc = "done" /\ kPrimary = "empty" /\ kSecondary = "rows"
    /\ results["kline"] = BsKline(stock_code)

\* the providers whose values an indicator record carries
ValueProviders(ind) ==
    {ind.roe_pct, ind.gross_margin_pct, ind.net_margin_pct, ind.debt_ratio_pct}
    \ {NoTag}

IndReturned == cIn # None /\ cIn.fn = "financial_indicators" /\ cOut # None

\* C6 (as the spec states it): the source tag of fetch_financial_indicators
\* names the provider of the values returned ('ak_indicator' for the primary,
\* 'baostock' for the secondary) and is None exactly when no value is returned.
C6_SourceNamesProvider ==
    IndReturned =>
        /\ cOut.source = NoTag <=> ValueProviders(cOut) = {}
        /\ cOut.source = "ak_indicator" => ValueProviders(cOut) = {"akshare"}
        /\ cOut.source = "baostock" => ValueProviders(cOut) = {"baostock"}

CatReturned == cIn # None /\ cIn.fn \in CatFetchers /\ cOut # None

\* C7 (as the spec states it): a table fetcher whose provider call returns an
\* empty result returns None.
C7_EmptyMeansAbsent ==
    (CatReturned /\ cIn.fn \in PoolNames /\ cIn.up[1] \in {"bare", "empty"})
        => cOut.val = None

RetryLast == rHist[Len(rHist)]

\* C9: retry invokes the callable at most tries times and never after a
\* success; it returns (value, None) for the first success, and (None, the
\* last attempt's error) only after exactly tries failures, of whatever type.
C9_AttemptBudget ==
    /\ rSt.calls = Len(rHist) /\ rSt.calls <= rTries
    /\ \A k \in 1..(Len(rHist) - 1) : ~rHist[k].ok
    /\ ~rSt.done => Len(rHist) < rTries
    /\ (rHist # <<>> /\ RetryLast.ok) =>
           (rSt.done /\ rSt.val = RetryLast.val /\ rSt.err = NoTag)
    /\ (rSt.done /\ rHist # <<>> /\ ~RetryLast.ok) =>
           (Len(rHist) = rTries /\ rSt.val = None /\ rSt.err = RetryLast.err)
    /\ (rSt.done /\ rHist = <<>>) =>
           (rTries = 0 /\ rSt.val = None /\ rSt.err = NoTag)

\* C9 witness: three attempts allowed, three failures of different types,
\* and the error returned is the third one.
C9_Witness ==
    /\ rTries = 3 /\ rSt.done /\ Len(rHist) = 3
    /\ \A k \in 1..3 : ~rHist[k].ok
    /\ rHist[1].err # rHist[3].err
    /\ rSt.val = None /\ rSt.err = rHist[3].err

\* C10: a _bs_login call made with the flag set returns True without calling
\* bs.login(), and between two _bs_logout calls bs.login() succeeds at most
\* once.
C10_LoginIdempotent ==
    /\ (sLast.op = "login" /\ sLast.before) => (sLast.ret /\ ~sLast.called)
    /\ sOks <= 1

\* C10 witness: after a failed and a successful bs.login(), a further
\* _bs_login call found the flag set.
C10_Witness ==
    /\ sLast.op = "login" /\ sLast.before /\ sLast.ret
    /\ sLogins = 2 /\ sOks = 1

\* the threads between the flag test of _bs_login and its assignment
InFlight == {t \in DOMAIN thr : thr[t].pc \in {"login", "set"}}

\* C11 (as the spec states it): of the threads that call _bs_login while the
\* flag is unset at most one is in its provider login at a time, and the
\* provider's login succeeds at most once.
C11_SingleInFlightConnect ==
    Cardinality(InFlight) <= 1 /\ sOks <= 1

\* C12: _bs_logout called with the flag set calls bs.logout() and leaves the
\* flag unset, also when bs.logout() raises; called with the flag unset it
\* calls nothing and leaves the flag unset.
C12_LogoutDisconnects ==
    sLast.op = "logout" =>
        /\ ~bsLoggedIn
        /\ sLast.called <=> sLast.before

\* C12 witness: bs.logout() raised in a _bs_logout call made with the flag
\* set, and the flag is unset.
C12_Witness ==
    /\ sLast.op = "logout" /\ sLast.before /\ sLast.called
    /\ sLast.out = "raise" /\ ~bsLoggedIn

BsSiteReturned == cIn # None /\ cIn.site # "_bs_logout" /\ cOut # None

\* C13: a caller issues queries to the secondary only after _bs_login
\* returned True with the flag set; when bs.login() raises or reports an
\* error the flag is unset, no query is issued, and the caller's result is
\* what its other tiers gave.
C13_QueriesRequireConnected ==
    BsSiteReturned =>
        /\ cOut.queries # <<>> => (cOut.asked /\ cOut.connect /\ cOut.flag)
        /\ (cOut.asked /\ ~cOut.connect) =>
               (~cOut.flag /\ cOut.queries = <<>> /\ cOut.fell)
        /\ (cOut.called /\ cIn.lo # "ok") => (~cOut.connect /\ ~cOut.flag)

\* C13 witness: fetch_company_info asked for the session, bs.login() raised,
\* and the profile returned is the one of the primary tiers, with no query.
C13_Witness ==
    /\ BsSiteReturned /\ cIn.site = "fetch_company_info" /\ cIn.lo = "raise"
    /\ cOut.asked /\ cOut.called /\ ~cOut.connect /\ ~bsLoggedIn
    /\ cOut.queries = <<>> /\ cOut.fell

\* the tiers attempted so far, in order
TiersTried == [i \in 1..Len(log) |-> log[i].tier]
\* the step being taken attempts the named tier
Attempts(tier) == Len(log') = Len(log) + 1 /\ log'[Len(log')].tier = tier
RatiosZero == cv.pe_ttm = 0 /\ cv.pb = 0

\* C14 as stated: the snapshot query is attempted iff PE and PB are both zero
\* after the indicator tier, and the secondary's query iff they are both
\* zero after the snapshot tier.
C14_TierGatingIff ==
    [][/\ pc = "spot" => (Attempts("spot_em") <=> RatiosZero)
       /\ pc = "bs" => (Attempts("baostock") <=> RatiosZero)]_vars

\* C14 amended: the snapshot query is attempted iff PE and PB are both zero
\* after the indicator tier; the secondary's query is attempted iff PE and
\* PB are both zero after the snapshot tier and baostock is importable and
\* _bs_login() returned True; the tiers attempted are in the order
\* indicator, snapshot, secondary, and none is attempted twice.
C14_TierGating ==
    [][/\ pc = "lg" => Attempts("lg_indicator")
       /\ pc = "spot" => (Attempts("spot_em") <=> RatiosZero)
       /\ pc = "spot" /\ ~RatiosZero => log' = log
       /\ pc = "bs" =>
             (Attempts("baostock") <=> (RatiosZero /\ hasBaostock /\ cOut'.connect))
       /\ pc = "bs" /\ ~RatiosZero => log' = log
       /\ pc \in {"call", "derive"} => log' = log
       /\ TiersTried' \in {<<>>, <<"lg_indicator">>, <<"lg_indicator", "spot_em">>,
                            <<"lg_indicator", "spot_em", "baostock">>}]_vars

\* C14 witness: the indicator tier and the snapshot tier gave no ratio, the
\* session was connected, and the secondary's query was issued third.
C14_Witness ==
    /\ pc = "returned" /\ hasBaostock /\ cOut.connect
    /\ TiersTried = <<"lg_indicator", "spot_em", "baostock">>
    /\ cv.source = "baostock" /\ cv.pe_ttm = 17

ProviderTags == {"lg_indicator", "spot_em", "baostock"}

\* C15: the returned snapshot's source names a provider tier only when that
\* tier supplied a returned price, PE or PB, and is 'fallback' or 'derived'
\* whenever no provider tier supplied any of them.
C15_SourceIdentifiesTier ==
    pc = "returned" =>
        /\ cv.source \in ProviderTags =>
              \E i \in 1..Len(log) : log[i].tier = cv.source /\ log[i].gave # {}
        /\ (\A i \in 1..Len(log) : log[i].gave = {}) =>
              cv.source \in {"fallback", "derived"}

\* every provider tier failed: none that was attempted got a row
AllTiersFailed == \A i \in 1..Len(log) : ~log[i].row
\* the price history passed in has two closes, the earlier one positive
TwoCloses ==
    /\ cIn.stock_kline # None /\ Len(cIn.stock_kline.closes) >= 2
    /\ cIn.stock_kline.closes[Len(cIn.stock_kline.closes) - 1] > 0
LastClose == cIn.stock_kline.closes[Len(cIn.stock_kline.closes)]
PrevClose == cIn.stock_kline.closes[Len(cIn.stock_kline.closes) - 1]

\* C16 as stated: with every provider tier failing and two closes known,
\* the snapshot has the last close as price, the day-over-day change, and
\* source 'fallback'.
C16_FallbackTag ==
    (pc = "returned" /\ AllTiersFailed /\ TwoCloses) =>
        /\ cv.price = LastClose
        /\ cv.change_pct = PctChange(LastClose, PrevClose)
        /\ cv.source = "fallback"

\* C16 amended: with every provider tier failing and two closes known, the
\* snapshot has the last close as price and the day-over-day change; its
\* source is 'derived', with total_mv = price * total_shares, when a
\* non-zero share count was passed and the price is positive, and
\* 'fallback' with total_mv 0 otherwise.
C16_LocalFallback ==
    (pc = "returned" /\ AllTiersFailed /\ TwoCloses) =>
        /\ cv.price = LastClose
        /\ cv.change_pct = PctChange(LastClose, PrevClose)
        /\ cv.pe_ttm = 0 /\ cv.pb = 0
        /\ IF cIn.total_shares # 0 /\ LastClose > 0
           THEN cv.source = "derived" /\ cv.total_mv = LastClose * cIn.total_shares
           ELSE cv.source = "fallback" /\ cv.total_mv = 0

\* C16 witness: closes 10.00 and 10.50, no share count, every tier failing:
\* price 10.50, change 5.00 percent, source 'fallback'.
C16_Witness ==
    /\ pc = "returned" /\ AllTiersFailed /\ Len(log) >= 2
    /\ cIn.stock_kline = [closes |-> <<1000, 1050>>] /\ cIn.total_shares = 0
    /\ cv.price = 1050 /\ cv.change_pct = 500 /\ cv.source = "fallback"

ProfileFields == {"stock_name", "industry", "total_shares"}
\* a field that is no longer at its default
Resolved(ci, f) ==
    CASE f = "stock_name" -> ci.stock_name # stock_code
      [] f = "industry" -> ci.industry # UnknownIndustry
      [] f = "total_shares" -> ci.total_shares # 0
\* the fields a provider call of the later tiers can supply
CanSupply(call) ==
    CASE call = "stock_info_a_code_name" -> {"stock_name"}
      [] call = "stock_zh_a_spot_em" -> {"industry", "total_shares"}
      [] call = "_bs_login" -> ProfileFields
      [] call = "query_stock_basic" -> {"stock_name"}
      [] call = "query_stock_industry" -> {"industry"}
      [] call = "query_balance_data" -> {"total_shares"}
      [] OTHER -> {}
\* the value a field has when a tier supplied it
SuppliedValues(f) ==
    CASE f = "stock_name" ->
            {<<"name", "em">>, <<"name", "codelist">>, <<"name", "baostock">>}
      [] f = "industry" -> {"industry/em", "industry/spot", "industry/baostock"}
      [] f = "total_shares" -> {SharesEm, SharesSpot, SharesBs}

\* C17: in every step of fetch_company_info after the first tier, a field
\* already resolved keeps its value, every provider call made can supply a
\* field that was unresolved before the step, and the step moves on to the
\* next tier (or returns) whatever the provider did; the profile returned
\* has each field either at its default or at a value a tier supplied.
C17_FieldsIndependent ==
    [][/\ pc \in {"tier2", "tier3", "tier4"} =>
          /\ \A f \in ProfileFields :
                Resolved(company_info, f) => company_info'[f] = company_info[f]
          /\ \A i \in (Len(log) + 1)..Len(log') :
                \E f \in CanSupply(log'[i].tier) : ~Resolved(company_info, f)
          /\ pc' = (CASE pc = "tier2" -> "tier3" [] pc = "tier3" -> "tier4"
                       [] pc = "tier4" -> "returned")
       /\ pc' = "returned" =>
             \A f \in ProfileFields :
                IF Resolved(company_info', f)
                THEN company_info'[f] \in SuppliedValues(f)
                ELSE company_info'[f] = CompanyTier1(stock_code, [kind |-> "raise"])[f]]_vars

\* C17 witness: the name came from the profile endpoint, the industry from
\* the snapshot and the share count from the secondary.
C17_Witness ==
    /\ pc = "returned"
    /\ company_info = [stock_name |-> <<"name", "em">>, industry |-> "industry/spot",
                       total_shares |-> SharesBs]
    /\ \E i \in 1..Len(log) : log[i].tier = "query_balance_data"
    /\ \A i \in 1..Len(log) : log[i].tier \notin {"stock_info_a_code_name",
                                                   "query_stock_basic"}

\* keys of the record that the steps after the pool add
PostPoolKeys == {"shareholder", "stock_name", "industry", "total_shares",
                 "current_valuation"}
\* the step being taken stores a pooled task's result
PoolStep == taskOut' # taskOut
\* the step being taken is one of the cross-category fallbacks: it adds a
\* key of theirs, or replaces the price history
FallbackStep ==
    \/ (DOMAIN results' \ DOMAIN results) \cap PostPoolKeys # {}
    \/ "kline" \in DOMAIN results /\ results'["kline"] # results["kline"]
ValuationStep == "current_valuation" \in DOMAIN results' \ DOMAIN results

\* C18: a pooled task's result appears only once fetch_company_info has
\* returned, and the profile does not change while the pool runs; a
\* cross-category fallback step is taken only when every pooled task has
\* completed; the valuation step is taken only when the roster, the price
\* history substitution and the share-count fallback have been applied.
C18_Ordering ==
    [][/\ PoolStep =>
             /\ company_info # NoProfile /\ company_info' = company_info
             /\ DOMAIN results \cap PostPoolKeys = {}
       /\ company_info # NoProfile /\ DOMAIN taskOut = {} =>
             DOMAIN results = {}
       /\ FallbackStep => (DOMAIN taskOut = PoolNames /\ ~PoolStep)
       /\ ValuationStep =>
             /\ PostPoolKeys \ {"current_valuation"} \subseteq DOMAIN results
             /\ results = KlineSubstitute(results, bs_kline_fallback)
             /\ company_info.total_shares =
                   SharesFromAbstract(company_info.total_shares,
                                      results["financial_abstract"])
             /\ results["total_shares"] = company_info.total_shares]_vars

\* C18 witness: the request is done, the price history returned is the
\* secondary's, substituted after the pool, and the share count is the one
\* taken from the financial abstract.
C18_Witness ==
    /\ pc = "done" /\ DOMAIN taskOut = PoolNames
    /\ taskOut["kline"].val = None /\ results["kline"] = BsKline(stock_code)
    /\ taskOut["financial_abstract"].val # None
    /\ results["total_shares"] # 0
    /\ results["total_shares"] =
          SharesFromAbstract(0, taskOut["financial_abstract"].val)
    /\ results["current_valuation"].source = "derived"

\* the frame passed in, in date order, and the frame returned
QuarterReturned == cOut # None /\ cIn.kind = "frame" /\ cIn.rows # {}
Cumulative == SortByDate(cIn.rows)
Quarterly == cOut.rows
SameYearBefore(i) == i > 1 /\ Cumulative[i - 1].year = Cumulative[i].year

\* C19: the frame returned has the periods of the frame passed in, in date
\* order; a March period keeps its cumulative value, every period with an
\* earlier period in its year gets its cumulative value minus the
\* cumulative value of the period before it, both taken from the frame
\* passed in; the column that is not a flow column is unchanged.
C19_CumulativeToQuarterly ==
    QuarterReturned =>
        /\ Len(Quarterly) = Len(Cumulative)
        /\ \A i \in 1..Len(Cumulative) :
              /\ DateKey(Quarterly[i]) = DateKey(Cumulative[i])
              /\ Quarterly[i].assets = Cumulative[i].assets
              /\ Cumulative[i].month = 3 => Quarterly[i].rev = Cumulative[i].rev
              /\ (Cumulative[i].month # 3 /\ SameYearBefore(i)) =>
                    Quarterly[i].rev = Cumulative[i].rev - Cumulative[i - 1].rev

\* C19 witness: cumulative 100, 250, 400, 600 for March to December gives
\* 100, 150, 150, 200.
C19_Witness ==
    /\ QuarterReturned /\ cIn.rows = ExampleStatement
    /\ [i \in 1..4 |-> Quarterly[i].rev] = <<100, 150, 150, 200>>

RECURSIVE SumRev(_)
SumRev(rows) == IF rows = <<>> THEN 0 ELSE Head(rows).rev + SumRev(Tail(rows))
\* the December row of a year of the frame passed in
DecemberOf(year) == {r \in cIn.rows : r.year = year /\ r.month = 12}

\* C20: for every year of the frame passed in with at least two periods,
\* December among them, the values returned for the year's periods sum to
\* the December cumulative value.
C20_QuarterlyRoundTrip ==
    QuarterReturned =>
        \A y \in QYears :
            (Len(YearData(Cumulative, y)) >= 2 /\ DecemberOf(y) # {}) =>
                \A d \in DecemberOf(y) : SumRev(YearData(Quarterly, y)) = d.rev

\* C20 witness: a year without a March period (June 100, December 0)
\* returns 100 and -100, and another year has a single period.
C20_Witness ==
    /\ QuarterReturned
    /\ cIn.rows = {StatementRow(<<2023, 6>>, 100), StatementRow(<<2023, 12>>, 0),
                   StatementRow(<<2024, 3>>, 100)}
    /\ [i \in 1..3 |-> Quarterly[i].rev] = <<100, -100, 100>>

\* the period a quarter before row i is in the frame passed in
HasPreviousQuarter(i) ==
    \E r \in cIn.rows :
        r.year = Cumulative[i].year /\ r.month = Cumulative[i].month - 3

\* C21: a period other than March whose previous quarter of the same year
\* is not in the statement gets the unknown value: it does not keep its
\* cumulative value and is not computed against an earlier period.
C21_MissingPredecessorUnknown ==
    QuarterReturned =>
        \A i \in 1..Len(Cumulative) :
            (Cumulative[i].month # 3 /\ ~HasPreviousQuarter(i)) =>
                Quarterly[i].rev = NaN

TtmReturned == cOut # None /\ cIn.kind = "frame" /\ cIn.hascol
Known(v) == v # NaN /\ v # Placeholder
\* the rows of the frame passed in for a year and month
RowsAt(year, month) == {r \in cIn.rows : r.year = year /\ r.month = month}

C23_TtmUnknownOnMissing ==
    TtmReturned =>
        \A r \in cIn.rows :
            (/\ r.month # 12
             /\ \/ \A a \in RowsAt(r.year - 1, 12) : ~Known(a.val)
                \/ \A b \in RowsAt(r.year - 1, r.month) : ~Known(b.val)) =>
                cOut.series[DateKey(r)] = NaN


\* ---------------------------------------------------------------- C24-C27
AdvReturned ==
    cOut # None /\ ~cOut.exc /\ cOut.val.valuation_daily.kind = "frame"
ValuationRows == cOut.val.valuation_daily.rows

\* the value of the most recent report period with a known value whose end
\* date is on or before the day, unknown when there is none
CarriedValue(series, day) ==
    LET known == {d \in DOMAIN series : d <= day /\ series[d] # NaN}
    IN  IF known = {} THEN NaN
        ELSE series[CHOOSE d \in known : \A x \in known : x <= d]

\* C24: every trading-day row of the valuation series carries, for each
\* fundamental series, the value of the most recent report period whose end
\* date is on or before that day, whether or not that end date is itself a
\* trading day.
C24_ForwardFillJoin ==
    AdvReturned =>
        \A i \in DOMAIN ValuationRows :
            LET row == ValuationRows[i]
            IN  /\ row.ttm_profit = CarriedValue(cOut.val.ttm_profit, row.date)
                /\ row.ttm_rev = CarriedValue(cOut.val.ttm_rev, row.date)
                /\ row.equity = CarriedValue(EquitySeries(cIn.balance_sheet), row.date)

\* the bars of the price history from the first known close on
FromFirstKnownClose(bars) ==
    {x \in bars : \E k \in bars : k.close # NaN /\ k.date <= x.date}

\* C25 as stated: no row of the valuation series has an unknown value for a
\* forward-filled fundamental; the rows before the first known fundamental
\* value are dropped.
C25_NoUnknownFundamental ==
    AdvReturned =>
        \A i \in DOMAIN ValuationRows : ValuationRows[i].ttm_profit # NaN

\* C25 amended: the rows dropped are those before the first known close
\* price: no row of the valuation series has an unknown close, and every
\* trading day from the first known close on has its row, also when its
\* fundamentals are still unknown.
C25_DropsUnknownClose ==
    AdvReturned =>
        /\ \A i \in DOMAIN ValuationRows : ValuationRows[i].close # NaN
        /\ {ValuationRows[i].date : i \in DOMAIN ValuationRows} =
              {b.date : b \in FromFirstKnownClose(cIn.stock_kline.bars)}

\* C25 witness: a leading day without a close was dropped, and a kept day
\* before the first known profit has its row with the profit unknown
C25_Witness ==
    /\ AdvReturned
    /\ Len(ValuationRows) = 3
    /\ Cardinality(cIn.stock_kline.bars) = 4
    /\ ValuationRows[1].date = AdvReportDay /\ ValuationRows[1].ttm_profit = 150
    /\ \E b \in cIn.stock_kline.bars : b.date < AdvReportDay /\ b.close = NaN

\* the ratio the valuation contract asks for
UnknownIfNoDenominator(market_cap, denominator) ==
    IF market_cap = NaN \/ denominator = NaN \/ denominator = 0 THEN NaN
    ELSE market_cap \div denominator

\* C26: on every row marketCap = close * totalShares and PE, PB, PS are
\* marketCap over TTM profit, equity and TTM revenue; a zero or unknown
\* denominator gives an unknown ratio, never an infinite one.
C26_RatiosUnknownOnZero ==
    AdvReturned =>
        \A i \in DOMAIN ValuationRows :
            LET row == ValuationRows[i]
            IN  /\ row.market_cap = Times(row.close, cIn.total_shares)
                /\ row.pe = UnknownIfNoDenominator(row.market_cap, row.ttm_profit)
                /\ row.pb = UnknownIfNoDenominator(row.market_cap, row.equity)
                /\ row.ps = UnknownIfNoDenominator(row.market_cap, row.ttm_rev)

\* C27: whatever inputs are absent, prepare_advanced_data returns without
\* raising, and the valuation series is omitted when the price history or
\* the TTM profit is unavailable.
C27_ToleratesNone ==
    cOut # None /\ cIn \in Analyzers =>
        /\ ~cOut.exc
        /\ (cIn.stock_kline.kind = "none" \/ cIn.income_statement.kind = "none")
              => cOut.val.valuation_daily.kind = "none"

\* -------------------------------------------------------------------- C28
HoldersReturned == cOut # None
\* the holders of the previous roster with the name, none when that roster
\* could not be fetched
SameNamed(name) ==
    IF cIn.df_prev.kind # "frame" THEN {}
    ELSE {cIn.df_prev.rows[i] : i \in {j \in DOMAIN cIn.df_prev.rows :
                                          cIn.df_prev.rows[j].name = name}}
DistinctPeriods ==
    IF cIn.fa = None THEN {} ELSE {cIn.fa.dates[i] : i \in DOMAIN cIn.fa.dates}

\* C28: every holder of the returned roster has change = latest count minus
\* the count of the same-named holder of the previous roster, and minus zero
\* when there is no such holder (also when the previous roster is unfetched
\* or empty); with fewer than two distinct report periods there is no roster.
C28_ShareholderDelta ==
    HoldersReturned =>
        /\ Cardinality(DistinctPeriods) < 2 => cOut.val = None
        /\ cOut.val # None =>
              \A i \in DOMAIN cOut.val.latest :
                  LET h == cOut.val.latest[i]
                  IN  IF SameNamed(h.name) = {} THEN h.change = h.shares - 0
                      ELSE \E p \in SameNamed(h.name) : h.change = h.shares - p.shares

\* -------------------------------------------------------------------- C29
\* C29 as stated: the secondary's price-history query is issued only after
\* the primary price-history fetch raised or returned empty, and not at all
\* when the primary succeeds.
C29_SecondaryAfterPrimaryFailed ==
    kSecondary = "rows" => kPrimary \in {"raised", "empty"}

\* C29 amended: the secondary's price-history query comes first: its outcome
\* is settled before the primary fetch has any, it is issued only with the
\* secondary installed, and when the primary succeeds the rows it returned
\* are left aside and the price history is the primary's.
C29_SecondaryPrefetched ==
    /\ kPrimary # "pending" => kSecondary # "pending"
    /\ kSecondary = "rows" => (hasBaostock /\ bs_kline_fallback = BsKline(stock_code))
    /\ (pc = "done" /\ kPrimary = "rows" /\ kSecondary = "rows") =>
           (bs_kline_fallback # None /\ results["kline"] # bs_kline_fallback)

\* C29 witness: the request ended with the primary's rows although the
\* secondary's query had been issued and had returned rows
C29_Witness ==
    /\ pc = "done" /\ kPrimary = "rows" /\ kSecondary = "rows"
    /\ results["kline"] = AkKline(stock_code)

\* -------------------------------------------------------------------- C30
\* C30: there is one session state: a module whose flag says Connected is
\* never wrong about the provider's session, and no login is issued to the
\* provider while its session is logged in.
C30_OneSessionState ==
    /\ bsLoggedIn => SessionUp
    /\ icLoggedIn => SessionUp
    /\ \A i \in DOMAIN log : log[i].call = "login" => ~log[i].before

\* -------------------------------------------------------------------- C31
\* C31: once fetch_all_data is past the executor block every dispatched
\* category fetch has run to completion, returned or raised, none is left
\* queued or running, and each has its entry in the results; and with every
\* upstream call ending, fetch_all_data eventually returns.
C31_Completion ==
    /\ [](pc \in {"joined", "done"} =>
             /\ DOMAIN thr = Dispatched
             /\ \A n \in Dispatched : Finished(n) /\ n \in DOMAIN results)
    /\ <>(pc = "done")

\* C31 witness: fetch_all_data returned with one worker, after a task that
\* raised and a task that returned
C31_Witness ==
    /\ pc = "done" /\ cIn.workers = 1
    /\ \E n, m \in Dispatched : thr[n] = "raised" /\ thr[m] = "returned"
    /\ cOut = results

\* ---------------------------------------------------------------- C32-C33
\* C32: the call leaves the frame passed in as it was; the frame returned has
\* exactly its periods, one row each, and on every row the period date and
\* the column that is not a flow column are those of the frame passed in; no
\* frame or an empty one is returned as it is.
C32_Frame ==
    [][QuarterCall =>
          /\ cIn' = cIn
          /\ (cIn.kind = "none" \/ cIn.rows = {}) => cOut' = cIn
          /\ (cIn.kind = "frame" /\ cIn.rows # {}) =>
                /\ Len(cOut'.rows) = Cardinality(cIn.rows)
                /\ \A r \in cIn.rows :
                      \E i \in DOMAIN cOut'.rows :
                          /\ cOut'.rows[i].year = r.year
                          /\ cOut'.rows[i].month = r.month
                          /\ cOut'.rows[i].assets = r.assets
                          /\ DOMAIN cOut'.rows[i] = DOMAIN r]_vars

\* C32 witness: a statement of all eight periods came back with a flow value
\* changed and the balance-sheet total on every row
C32_Witness ==
    /\ QuarterReturned /\ Len(Quarterly) = Cardinality(Periods)
    /\ \E i \in DOMAIN Quarterly : Quarterly[i].rev # Cumulative[i].rev
    /\ \A i \in DOMAIN Quarterly : Quarterly[i].assets = SampleAssets

\* C33: a period other than March with an earlier period in its year, whose
\* own cumulative value or that earlier period's is unknown, gets an unknown
\* quarterly value.
C33_UnknownInUnknownOut ==
    QuarterReturned =>
        \A i \in 1..Len(Cumulative) :
            (/\ Cumulative[i].month # 3 /\ SameYearBefore(i)
             /\ (~Known(Cumulative[i].rev) \/ ~Known(Cumulative[i - 1].rev)))
                => ~Known(Quarterly[i].rev)

\* -------------------------------------------------------------------- C34
\* C34: a failed fetch of the directory is not cached, so every call queries
\* the provider until one query has succeeded, and no query is issued after
\* that: the cache holds nothing or a directory, a query was issued by every
\* call as long as none succeeded, and only the last query issued succeeded.
C34_DirectoryCache ==
    /\ cv # None => cv.value # None
    /\ (\A i \in DOMAIN log : log[i] = "raise") => Len(log) = sOps
    /\ \A i \in DOMAIN log : i < Len(log) => log[i] = "raise"

\* -------------------------------------------------------------------- C35
\* C35: _normalize_code applied to its own result gives that result again,
\* for every input, an input with more than one venue prefix included.
C35_Idempotent ==
    cOut # None => cOut = nOut

=============================================================================
